---- MODULE Spec2Model ----
(***************************************************************************)
(* Verification model of the ShopVox <-> Wrike synchronisation service.    *)
(*                                                                         *)
(* The module is organised by component:                                   *)
(*   1. Reconciliation engine (WrikeService.createOrUpdate*Task)           *)
(*   2. Execution-trace recorder (PostgresService), query by query, and    *)
(*      the handlers that drive it                                         *)
(*   3. Webhook authentication (verifyWebhookRequest and the two Wrike     *)
(*      webhook endpoints)                                                 *)
(*   4. Resilient remote caller (withRetry / isRetryableError) and the     *)
(*      Wrike request path (makeRequest)                                   *)
(*   5. Loop guards (target-install-date handler, work-order-updated       *)
(*      handler)                                                           *)
(*   6. Responsibles delta (updateWosoTask / updateQuoteTask)              *)
(*   7. State log (addLogToState)                                          *)
(*   8. Error recording (categorizeError next to isRetryableError)         *)
(*   9. Subtask naming (subtask:created handler, updateSubtask)            *)
(* Each component has its own specification over the shared variables.     *)
(***************************************************************************)
EXTENDS Integers, Sequences, FiniteSets, TLC

VARIABLES
    \* ---- 1. reconciliation engine ----
    shopvox,        \* source system: entity id -> current record content
    wrikeTasks,     \* target system: sequence of task records, task id = index
    runs,           \* one reconcile run per run id
    \* ---- 2. execution-trace recorder and flow handlers ----
    proc,           \* per trace: the event handler processing the event
    notif,          \* per trace: the notification handler
    flowRow,        \* flow_executions.status per trace id ("none": no row)
    executionIdCache, \* PostgresService.executionIdCache (trace ids present)
    finality,       \* per trace: finality topics emitted, in order
    \* ---- 3. webhook authentication ----
    webhook,        \* per request: the Wrike webhook endpoint handling it
    \* ---- 4. resilient remote caller ----
    retry,          \* one withRetry invocation
    wrikeCall,      \* one WrikeService call going through makeRequest
    svCall,         \* one ShopVoxService call: fetch inside withRetry
    \* ---- 5. loop guards ----
    salesOrder,     \* the ShopVox sales order: dueDate, projectManager
    wosoTask,       \* its Wrike task: the two custom fields the guards read
    tid,            \* the target-install-date-changed handler (Wrike -> ShopVox)
    wou,            \* the work-order-updated handler (ShopVox -> Wrike)
    \* ---- 6. responsibles delta ----
    responsibles,   \* the Wrike task's responsibles (set of Wrike user ids)
    ownerTask,      \* that task: whether it exists, its user custom field
    own,            \* one update carrying an ownership change
    \* ---- 2 (continued). the recorder's queries ----
    stepRows,       \* step_executions rows
    stepExecutionCache, \* PostgresService.stepExecutionCache (keys present)
    queries,        \* recorder queries sent to the pool and not yet answered
    rc,             \* per trace: what its answered queries did
    \* ---- 7. state log ----
    logsEntries,    \* state key "logs.entries" per trace id: the stored array
    appender,       \* per handler invocation: its addLogToState call
    logged,         \* entries whose addLogToState call has returned
    \* ---- 8. error recording ----
    errRec,         \* per trace: the error a handler caught and recorded
    \* ---- 9. subtask naming ----
    titles,         \* Wrike: title per task id (the parent and its subtasks)
    sub             \* the subtask:created handler and the PUTs it has issued

reconVars == <<shopvox, wrikeTasks, runs>>
traceVars == <<proc, notif, flowRow, executionIdCache, finality>>

authVars == <<webhook>>

callVars == <<retry, wrikeCall, svCall>>

guardVars == <<salesOrder, wosoTask, tid, wou>>

ownerVars == <<responsibles, ownerTask, own>>

recorderVars == <<stepRows, stepExecutionCache, queries, rc>>

stateLogVars == <<logsEntries, appender, logged>>

subVars == <<titles, sub>>

vars == <<reconVars, traceVars, authVars, callVars, guardVars, ownerVars,
          recorderVars, stateLogVars, errRec, subVars>>

exceptRecon == <<traceVars, authVars, callVars, guardVars, ownerVars, recorderVars,
                stateLogVars, errRec, subVars>>
exceptAuth == <<reconVars, traceVars, callVars, guardVars, ownerVars, recorderVars,
                stateLogVars, errRec, subVars>>
exceptCall == <<reconVars, traceVars, authVars, guardVars, ownerVars, recorderVars,
                stateLogVars, errRec, subVars>>
exceptGuard == <<reconVars, traceVars, authVars, callVars, ownerVars, recorderVars,
                stateLogVars, errRec, subVars>>
exceptOwner == <<reconVars, traceVars, authVars, callVars, guardVars, recorderVars,
                stateLogVars, errRec, subVars>>
exceptFlow == <<reconVars, authVars, callVars, guardVars, ownerVars,
                stateLogVars, errRec, subVars>>
exceptFlowAndLog == <<reconVars, authVars, callVars, guardVars, ownerVars,
                      appender, errRec, subVars>>
exceptStateLog == <<reconVars, traceVars, authVars, callVars, guardVars,
                    ownerVars, recorderVars, errRec, subVars>>
exceptErrRec == <<reconVars, traceVars, authVars, callVars, guardVars,
                  ownerVars, recorderVars, stateLogVars, subVars>>
exceptSub == <<reconVars, traceVars, authVars, callVars, guardVars,
               ownerVars, recorderVars, stateLogVars, errRec>>

(***************************************************************************)
(* WRIKE WRITE REQUESTS                                                    *)
(***************************************************************************)

\* WrikeService.maxRetries, retryDelay
maxRetries == 3
retryDelay == 1000

\* WrikeService.requestTimeout (ms)
requestTimeout == 30000

\* How one fetch of a POST or PUT sent through makeRequest ends, for Wrike
\* and for the calling service method:
\*   ok          Wrike carries the request out and answers 200 with a JSON
\*               body; the method returns;
\*   unparsable  Wrike carries it out and answers 200 with a body that is
\*               not JSON; "await response.json()" throws;
\*   rejected    Wrike answers with a status that is not ok, or fetch
\*               rejects with an error makeRequest does not retry; nothing
\*               is written and the method throws;
\*   lost        Wrike carries it out but the answer never arrives: the
\*               30 s timer aborts the fetch or the connection breaks;
\*   unsent      the fetch fails the same way before Wrike has seen it.
WriteOutcomes == {"ok", "unparsable", "rejected", "lost", "unsent"}

\* Wrike has carried the request out.
requestApplied(outcome) == outcome \in {"ok", "unparsable", "lost"}

\* makeRequest's catch block: "shouldRetry && retryCount < this.maxRetries"
\* sends the same request again.
requestResent(outcome, retryCount) ==
    outcome \in {"lost", "unsent"} /\ retryCount < maxRetries

\* The service method returns its parsed response.
requestReturns(outcome) == outcome = "ok"

(***************************************************************************)
(* 1. RECONCILIATION ENGINE                                                *)
(***************************************************************************)

\* Number of reconcile runs (handler invocations) explored.
MaxRuns == 2

\* Number of times the source record is edited between runs.
MaxVersion == 2

\* quote:created events are taken while the target holds fewer records.
MaxTasks == 2

RunIds == 1..MaxRuns

\* A sales order (reconciled into the WoSo database) and a quote
\* (reconciled into the quotes database).
Entities == {"SO-1", "QT-1"}

\* wososDbId / quotesDbId: the Wrike folder a search or create is scoped to.
DbOf(e) == IF e = "SO-1" THEN "wosos" ELSE "quotes"

\* retryCount: makeRequest's argument in the run's pending write request.
IdleRun == [pc |-> "idle", handler |-> "reconcile", entity |-> "SO-1", rec |-> 0,
            taskId |-> 0, wasCreated |-> FALSE, searched |-> FALSE,
            retryCount |-> 0]

\* Indices of a sequence whose element satisfies a test, in ascending order.
RECURSIVE MatchingIds(_, _, _)
MatchingIds(tasks, db, sid) ==
    IF tasks = <<>> THEN <<>>
    ELSE LET n == Len(tasks)
             rest == MatchingIds(SubSeq(tasks, 1, n - 1), db, sid)
         IN IF tasks[n].db = db /\ tasks[n].shopvoxId = sid
            THEN Append(rest, n) ELSE rest

\* findTaskBySalesOrderId / findTaskByQuoteId: GET folders/{db}/tasks with
\* the custom-field filter SHOPVOX_ID EqualTo the source id.
findTaskBySourceId(tasks, e) == MatchingIds(tasks, DbOf(e), e)

\* "if (searchResult.data.length > 0)": the create-or-update decision.
SearchHit(searchResult) == Len(searchResult) > 0

\* createWosoTask / createQuoteTask: POST folders/{db}/tasks; the custom
\* fields carry SHOPVOX_ID = source id together with the mapped content.
createTask(tasks, e, rec) ==
    Append(tasks, [db |-> DbOf(e), shopvoxId |-> e, data |-> rec])

\* updateWosoTask / updateQuoteTask: PUT tasks/{taskId} overwriting title,
\* description and custom fields from the record.
updateTask(tasks, taskId, rec) ==
    [tasks EXCEPT ![taskId].data = rec]

\* A reconciling handler is invoked for an entity: the work_order:created
\* handler for the sales order, the quote:updated handler for the quote.
\* Neither has a loop guard: a fetched record always goes to
\* createOrUpdate*Task. (The work_order:updated handler, which has guards,
\* is component 5's Wou.) A handler slot that has finished takes the next
\* event.
StartReconcile(r, e) ==
    /\ runs[r].pc \in {"idle", "done", "failed"}
    /\ runs' = [runs EXCEPT ![r] = [IdleRun EXCEPT !.pc = "fetch", !.entity = e]]
    /\ UNCHANGED <<shopvox, wrikeTasks>>
    /\ UNCHANGED exceptRecon

\* The quote-created handler is invoked for a quote (quote:created).
StartQuoteCreated(r) ==
    /\ runs[r].pc \in {"idle", "done", "failed"}
    /\ Len(wrikeTasks) < MaxTasks
    /\ runs' = [runs EXCEPT ![r] = [IdleRun EXCEPT !.pc = "fetch",
                                                   !.handler = "quote-created",
                                                   !.entity = "QT-1"]]
    /\ UNCHANGED <<shopvox, wrikeTasks>>
    /\ UNCHANGED exceptRecon

\* What the handler calls once it holds the source record: the reconciling
\* handlers call createOrUpdate*Task, quote-created calls createQuoteTask.
afterFetch(handler) == IF handler = "quote-created" THEN "create" ELSE "search"

\* shopvoxService.getSalesOrder / getQuote: fetch the canonical record, or throw.
FetchSource(r, ok) ==
    /\ runs[r].pc = "fetch"
    /\ runs' = [runs EXCEPT ![r].pc = IF ok THEN afterFetch(runs[r].handler)
                                      ELSE "failed",
                            ![r].rec = IF ok THEN shopvox[runs[r].entity] ELSE @]
    /\ UNCHANGED <<shopvox, wrikeTasks>>
    /\ UNCHANGED exceptRecon

\* createOrUpdate*Task up to the branch: search, then decide.
FindTask(r, ok) ==
    /\ runs[r].pc = "search"
    /\ LET searchResult == findTaskBySourceId(wrikeTasks, runs[r].entity)
       IN runs' = [runs EXCEPT
             ![r].pc = IF ~ok THEN "failed"
                       ELSE IF SearchHit(searchResult) THEN "update" ELSE "create",
             ![r].searched = ok,
             ![r].taskId = IF ok /\ SearchHit(searchResult)
                           THEN searchResult[1] ELSE @]
    /\ UNCHANGED <<shopvox, wrikeTasks>>
    /\ UNCHANGED exceptRecon

\* createOrUpdate*Task, create branch (createQuoteTask itself in the
\* quote-created handler): one fetch of the POST. Every POST Wrike carries
\* out adds a task, also one whose answer is lost and which makeRequest
\* then sends again; the run is done when the method returns and fails
\* when it throws.
CreateTask(r, outcome) ==
    /\ runs[r].pc = "create"
    /\ outcome \in WriteOutcomes
    /\ requestApplied(outcome) => Len(wrikeTasks) < MaxTasks
    /\ wrikeTasks' = IF requestApplied(outcome)
                     THEN createTask(wrikeTasks, runs[r].entity, runs[r].rec)
                     ELSE wrikeTasks
    /\ LET resent == requestResent(outcome, runs[r].retryCount)
           returns == requestReturns(outcome)
       IN runs' = [runs EXCEPT
             ![r].pc = IF resent THEN "create"
                       ELSE IF returns THEN "done" ELSE "failed",
             ![r].retryCount = IF resent THEN @ + 1 ELSE 0,
             ![r].taskId = IF returns THEN Len(wrikeTasks) + 1 ELSE @,
             ![r].wasCreated = returns]
    /\ UNCHANGED shopvox
    /\ UNCHANGED exceptRecon

\* createOrUpdate*Task, update branch: one fetch of the PUT to the task the
\* search returned first.
UpdateTask(r, outcome) ==
    /\ runs[r].pc = "update"
    /\ outcome \in WriteOutcomes
    /\ wrikeTasks' = IF requestApplied(outcome)
                     THEN updateTask(wrikeTasks, runs[r].taskId, runs[r].rec)
                     ELSE wrikeTasks
    /\ LET resent == requestResent(outcome, runs[r].retryCount)
       IN runs' = [runs EXCEPT
             ![r].pc = IF resent THEN "update"
                       ELSE IF requestReturns(outcome) THEN "done" ELSE "failed",
             ![r].retryCount = IF resent THEN @ + 1 ELSE 0]
    /\ UNCHANGED shopvox
    /\ UNCHANGED exceptRecon

\* A user edits the record in the source system.
SourceEdit(e) ==
    /\ shopvox[e] < MaxVersion
    /\ shopvox' = [shopvox EXCEPT ![e] = @ + 1]
    /\ UNCHANGED <<wrikeTasks, runs>>
    /\ UNCHANGED exceptRecon

NoRunActive == \A r \in RunIds : runs[r].pc \in {"idle", "done", "failed"}

InitRecon ==
    /\ shopvox = [e \in Entities |-> 0]
    /\ wrikeTasks = <<>>
    /\ runs = [r \in RunIds |-> IdleRun]


ReconStep ==
    \/ \E r \in RunIds, ok \in BOOLEAN : FetchSource(r, ok)
    \/ \E r \in RunIds, ok \in BOOLEAN : FindTask(r, ok)
    \/ \E r \in RunIds, outcome \in WriteOutcomes : CreateTask(r, outcome)
    \/ \E r \in RunIds, outcome \in WriteOutcomes : UpdateTask(r, outcome)
    \/ \E e \in Entities : SourceEdit(e)


(***************************************************************************)
(* 2. EXECUTION-TRACE RECORDER, QUOTE-CREATED FLOW, NOTIFICATION HANDLER   *)
(***************************************************************************)

\* Number of traces (events processed) explored.
MaxTraces == 2

TraceIds == 1..MaxTraces

\* flow-notification.step.ts config.subscribes
NotifSubscribes ==
    {"finality:error:quote-created", "finality:error:quote-updated",
     "finality:error:quote-destroyed", "finality:error:work-order-created",
     "finality:error:work-order-updated", "finality:error:work-order-destroyed",
     "finality:error:user-field-updated"}

\* The observability-logger wrappers start a PostgresService method and do
\* not await it. Each method reads its cache right away and sends one query
\* to the pool. The database touches the rows when it carries the statement
\* out; the method touches its cache when "await this.executeQuery" resumes
\* with the answer, which is a later moment. A query record's state tells
\* how far it is: "sent", "executed" (pool.query will resolve) or "rejected"
\* (pool.query will reject). The id of the flow row of trace t is written t.

EventStep == "process-shopvox-quote-created"
DestroyedStep == "process-shopvox-quote-destroyed"
NotificationStep == "flow-notification-handler"

\* A column the INSERT statement does not list.
NoTraceId == 0

\* logFlowStart: INSERT INTO flow_executions (trace_id, ..., status) VALUES
\* ($1, ..., 'running').
flowInsert(t, by) ==
    [kind |-> "flowInsert", t |-> t, by |-> by, stepName |-> "", status |-> "running",
     executionId |-> t, traceId |-> t, state |-> "sent"]

\* logFlowComplete: UPDATE flow_executions SET status = $1 WHERE trace_id = $5.
flowUpdate(t, by, status) ==
    [kind |-> "flowUpdate", t |-> t, by |-> by, stepName |-> "", status |-> status,
     executionId |-> t, traceId |-> t, state |-> "sent"]

\* logStepStart: INSERT INTO step_executions (execution_id, step_name,
\* status, metadata, started_at); execution_id is the cached id, trace_id is
\* not among the columns.
stepInsert(t, by, stepName) ==
    [kind |-> "stepInsert", t |-> t, by |-> by, stepName |-> stepName,
     status |-> "started", executionId |-> t, traceId |-> NoTraceId,
     state |-> "sent"]

\* logStepComplete: UPDATE step_executions SET status = $1 WHERE id = $7.
stepUpdate(t, by, stepName, status) ==
    [kind |-> "stepUpdate", t |-> t, by |-> by, stepName |-> stepName,
     status |-> status, executionId |-> t, traceId |-> NoTraceId,
     state |-> "sent"]

\* logStepStart up to its query: without a cached execution id it warns and
\* returns null.
pgLogStepStart(cache, t, by, stepName) ==
    IF t \in cache THEN {stepInsert(t, by, stepName)} ELSE {}

\* logStepComplete up to its query: without a cached step id it warns and
\* returns.
pgLogStepComplete(stepCache, t, by, stepName, status) ==
    IF <<t, stepName>> \in stepCache THEN {stepUpdate(t, by, stepName, status)}
    ELSE {}

\* The row a step insert stores.
stepRow(q) == [executionId |-> q.executionId, traceId |-> q.traceId,
               stepName |-> q.stepName, status |-> q.status]

\* The database carrying out logFlowStart's INSERT. trace_id is UNIQUE, so
\* the insert is rejected when a row exists; so is a query the database
\* cannot serve (queryOk = FALSE).
pgLogFlowStart(rows, t, queryOk) ==
    IF queryOk /\ rows[t] = "none" THEN [rows EXCEPT ![t] = "running"] ELSE rows

\* logFlowStart resumed with the answer: "if (result && result[0])
\* this.executionIdCache.set(traceId, executionId)"; executeQuery has
\* turned a rejected query into null.
pgCacheAfterStart(cache, t, returned) ==
    IF returned THEN cache \cup {t} ELSE cache

\* The database carrying out logFlowComplete's UPDATE flow_executions SET
\* status = $1 ... WHERE trace_id = $5.
pgLogFlowComplete(rows, t, status, queryOk) ==
    IF queryOk /\ rows[t] # "none" THEN [rows EXCEPT ![t] = status] ELSE rows

\* emit({topic, data: {traceId, ...}})
emit(fin, t, topic) == [fin EXCEPT ![t] = Append(@, topic)]

logThrowsOnFailure(queryOk) == ~queryOk

\* Whether a failed logging query throws into the handler that made the
\* call: executeQuery returns null for a failed query and the
\* observability-logger wrappers attach a .catch that only warns, so it
\* never does.
logThrows(queryOk) == FALSE

\* The stepName of the handler whose record is p.
stepNameOf(p) == IF p.handler = "quote-destroyed" THEN DestroyedStep ELSE EventStep

IdleProc == [pc |-> "idle", handler |-> "quote-created", outcome |-> "none",
             calls |-> <<>>]

\* quote-created handler: logFlowStart and logStepStart back to back, then
\* the first await. The step start reads the cache before the flow insert
\* can have been answered.
QcStart(t) ==
    /\ proc[t].pc = "idle"
    /\ proc' = [proc EXCEPT ![t].pc = "fetch"]
    /\ queries' = queries \cup {flowInsert(t, "event")}
                          \cup pgLogStepStart(executionIdCache, t, "event", EventStep)
    /\ UNCHANGED <<notif, flowRow, executionIdCache, finality>>
    /\ UNCHANGED <<stepRows, stepExecutionCache, rc>>
    /\ UNCHANGED exceptFlow

\* quote-created handler: shopvoxService.getQuote; its catch block emits
\* the error finality event and awaits the emit.
QcFetch(t, ok) ==
    /\ proc[t].pc = "fetch"
    /\ proc' = [proc EXCEPT ![t].pc = IF ok THEN "create" ELSE "emitted",
                            ![t].calls = Append(@, ok)]
    /\ finality' = IF ok THEN finality
                   ELSE emit(finality, t, "finality:error:quote-created")
    /\ UNCHANGED <<notif, flowRow, executionIdCache>>
    /\ UNCHANGED recorderVars
    /\ UNCHANGED exceptFlow

\* quote-created handler: wrikeService.createQuoteTask; the success path
\* calls logStepComplete and logFlowComplete and returns, the catch block
\* emits the error finality event and awaits the emit.
QcCreate(t, ok) ==
    /\ proc[t].pc = "create"
    /\ proc' = [proc EXCEPT ![t].pc = IF ok THEN "end" ELSE "emitted",
                            ![t].outcome = IF ok THEN "success" ELSE @,
                            ![t].calls = Append(@, ok)]
    /\ finality' = IF ok THEN finality
                   ELSE emit(finality, t, "finality:error:quote-created")
    /\ queries' = IF ok
                  THEN queries
                         \cup pgLogStepComplete(stepExecutionCache, t, "event",
                                                EventStep, "success")
                         \cup {flowUpdate(t, "event", "success")}
                  ELSE queries
    /\ UNCHANGED <<notif, flowRow, executionIdCache>>
    /\ UNCHANGED <<stepRows, stepExecutionCache, rc>>
    /\ UNCHANGED exceptFlow

\* A catch block after its "await emit": logStepError, then
\* logFlowComplete with false, and the handler returns.
QcCatch(t) ==
    /\ proc[t].pc = "emitted"
    /\ proc' = [proc EXCEPT ![t].pc = "end", ![t].outcome = "failed"]
    /\ queries' = queries
                    \cup pgLogStepComplete(stepExecutionCache, t, "event",
                                           stepNameOf(proc[t]), "failed")
                    \cup {flowUpdate(t, "event", "failed")}
    /\ UNCHANGED <<notif, flowRow, executionIdCache, finality>>
    /\ UNCHANGED <<stepRows, stepExecutionCache, rc>>
    /\ UNCHANGED exceptFlow

\* The notification handler is invoked, under the same trace id, for a
\* finality event on a topic it subscribes to; it calls logFlowStart and
\* logStepStart first.
NotifStart(t) ==
    /\ notif[t] = "idle"
    /\ \E i \in 1..Len(finality[t]) : finality[t][i] \in NotifSubscribes
    /\ notif' = [notif EXCEPT ![t] = "send"]
    /\ queries' = queries \cup {flowInsert(t, "notification")}
                          \cup pgLogStepStart(executionIdCache, t, "notification",
                                              NotificationStep)
    /\ UNCHANGED <<proc, flowRow, executionIdCache, finality>>
    /\ UNCHANGED <<stepRows, stepExecutionCache, rc>>
    /\ UNCHANGED exceptFlow

notifCatchRethrows(ok) == IF ok THEN "clear" ELSE "thrown"

\* Where the notification handler goes once sendEmail has settled: on to
\* clearFlowState, or through its catch block, which logs the error, does
\* not rethrow, and ends the handler normally.
notifCatch(ok) == IF ok THEN "clear" ELSE "swallowed"

\* clearFlowState: state.clear(traceId) removes the trace's keys, among
\* them "logs.entries"; a rejected state.clear is logged and nothing is
\* removed.
clearFlowState(entries, t, clearOk) ==
    IF clearOk THEN [entries EXCEPT ![t] = <<>>] ELSE entries

\* Notification handler: getFlowState, render, and "await sendEmail". When
\* that throws, the catch block calls logStepError and logFlowComplete with
\* false; nothing is emitted.
NotifSend(t, ok) ==
    /\ notif[t] = "send"
    /\ notif' = [notif EXCEPT ![t] = notifCatch(ok)]
    /\ queries' = IF ok THEN queries
                  ELSE queries
                         \cup pgLogStepComplete(stepExecutionCache, t, "notification",
                                                NotificationStep, "failed")
                         \cup {flowUpdate(t, "notification", "failed")}
    /\ UNCHANGED <<proc, flowRow, executionIdCache, finality>>
    /\ UNCHANGED <<stepRows, stepExecutionCache, rc>>
    /\ UNCHANGED exceptFlow

\* Notification handler: "await clearFlowState"; the state manager carries
\* out state.clear or rejects it, while the handler is suspended.
NotifClear(t, clearOk) ==
    /\ notif[t] = "clear"
    /\ notif' = [notif EXCEPT ![t] = "complete"]
    /\ logsEntries' = clearFlowState(logsEntries, t, clearOk)
    /\ logged' = IF clearOk THEN {e \in logged : e.traceId # t} ELSE logged
    /\ UNCHANGED <<proc, flowRow, executionIdCache, finality>>
    /\ UNCHANGED recorderVars
    /\ UNCHANGED exceptFlowAndLog

\* Notification handler: resumed after clearFlowState, it calls
\* logStepComplete and logFlowComplete with true and returns.
NotifComplete(t) ==
    /\ notif[t] = "complete"
    /\ notif' = [notif EXCEPT ![t] = "end"]
    /\ queries' = queries
                    \cup pgLogStepComplete(stepExecutionCache, t, "notification",
                                           NotificationStep, "success")
                    \cup {flowUpdate(t, "notification", "success")}
    /\ UNCHANGED <<proc, flowRow, executionIdCache, finality>>
    /\ UNCHANGED <<stepRows, stepExecutionCache, rc>>
    /\ UNCHANGED exceptFlow

\* The finality:error:* topics the flow handlers emit.
ErrorTopics ==
    {"finality:error:quote-created", "finality:error:quote-updated",
     "finality:error:quote-destroyed", "finality:error:work-order-created",
     "finality:error:work-order-updated",
     "finality:error:work-order-destroyed",
     "finality:error:target-install-date-updated"}

\* quote-destroyed handler: logFlowStart and logStepStart back to back,
\* then the first await.
DestroyedStart(t) ==
    /\ proc[t].pc = "idle"
    /\ finality[t] = <<>>
    /\ proc' = [proc EXCEPT ![t].pc = "void", ![t].handler = "quote-destroyed"]
    /\ queries' = queries \cup {flowInsert(t, "event")}
                          \cup pgLogStepStart(executionIdCache, t, "event",
                                              DestroyedStep)
    /\ UNCHANGED <<notif, flowRow, executionIdCache, finality>>
    /\ UNCHANGED <<stepRows, stepExecutionCache, rc>>
    /\ UNCHANGED exceptFlow

\* quote-destroyed handler: its try block calls logStepComplete and
\* logFlowComplete with true and emits nothing; when a statement of the
\* block throws, the catch block emits the error finality event and awaits
\* the emit.
DestroyedVoid(t, ok) ==
    /\ proc[t].pc = "void"
    /\ proc' = [proc EXCEPT ![t].pc = IF ok THEN "end" ELSE "emitted",
                            ![t].outcome = IF ok THEN "success" ELSE @]
    /\ finality' = IF ok THEN finality
                   ELSE emit(finality, t, "finality:error:quote-destroyed")
    /\ queries' = IF ok
                  THEN queries
                         \cup pgLogStepComplete(stepExecutionCache, t, "event",
                                                DestroyedStep, "success")
                         \cup {flowUpdate(t, "event", "success")}
                  ELSE queries
    /\ UNCHANGED <<notif, flowRow, executionIdCache>>
    /\ UNCHANGED <<stepRows, stepExecutionCache, rc>>
    /\ UNCHANGED exceptFlow

\* The topics of the handlers that call none of the recorder.
UnrecordedErrorTopics ==
    ErrorTopics \ {"finality:error:quote-created", "finality:error:quote-destroyed"}

\* A flow handler that calls none of the recorder runs under trace t and
\* ends in its catch block: it emits its error finality topic.
FlowFails(t, topic) ==
    /\ proc[t].pc = "idle"
    /\ finality[t] = <<>>
    /\ topic \in UnrecordedErrorTopics
    /\ finality' = emit(finality, t, topic)
    /\ proc' = [proc EXCEPT ![t].pc = "end", ![t].handler = "other",
                            ![t].outcome = "failed"]
    /\ UNCHANGED <<notif, flowRow, executionIdCache>>
    /\ UNCHANGED recorderVars
    /\ UNCHANGED exceptFlow

\* The success topics of the same handlers.
UnrecordedSuccessTopics ==
    {"finality:quote-updated-success", "finality:work-order-created-success",
     "finality:work-order-updated-success",
     "finality:work-order-destroyed-success",
     "finality:target-install-date-updated-success"}

\* A flow handler that calls none of the recorder runs under trace t and
\* ends in its try block: it emits its success finality topic.
FlowSucceeds(t, topic) ==
    /\ proc[t].pc = "idle"
    /\ finality[t] = <<>>
    /\ topic \in UnrecordedSuccessTopics
    /\ finality' = emit(finality, t, topic)
    /\ proc' = [proc EXCEPT ![t].pc = "end", ![t].handler = "other",
                            ![t].outcome = "success"]
    /\ UNCHANGED <<notif, flowRow, executionIdCache>>
    /\ UNCHANGED recorderVars
    /\ UNCHANGED exceptFlow

\* A handler whose logging call threw has ended there.
crashed(p, by) ==
    IF by = "event" /\ p.pc \notin {"idle", "end"}
    THEN [p EXCEPT !.pc = "end", !.outcome = "crashed"] ELSE p

\* Whether the database carries the statement out: a flow insert needs the
\* trace id to be new, a step insert needs its flow row to exist. A
\* database created from postgres-schema.sql rejects every step insert, its
\* trace_id column being NOT NULL; other databases are free to accept it.
statementSucceeds(q, rows, queryOk) ==
    CASE q.kind = "flowInsert" -> queryOk /\ rows[q.t] = "none"
      [] q.kind = "stepInsert" -> queryOk /\ rows[q.executionId] # "none"
      [] OTHER -> queryOk

\* The database executes a query the pool has sent (in any order: the pool
\* runs them on separate connections), or rejects it. Only the rows change;
\* the method that sent the query is still suspended in executeQuery.
QueryExecutes(q, queryOk) ==
    /\ q \in queries
    /\ q.state = "sent"
    /\ queries' = (queries \ {q})
                    \cup {[q EXCEPT !.state =
                              IF statementSucceeds(q, flowRow, queryOk)
                              THEN "executed" ELSE "rejected"]}
    /\ flowRow' =
         CASE q.kind = "flowInsert" -> pgLogFlowStart(flowRow, q.t, queryOk)
           [] q.kind = "flowUpdate" -> pgLogFlowComplete(flowRow, q.t, q.status, queryOk)
           [] OTHER -> flowRow
    /\ stepRows' =
         CASE q.kind = "stepInsert" /\ statementSucceeds(q, flowRow, queryOk) ->
                 stepRows \cup {stepRow(q)}
           [] q.kind = "stepUpdate" /\ queryOk ->
                 {IF r.executionId = q.executionId /\ r.stepName = q.stepName
                  THEN [r EXCEPT !.status = q.status] ELSE r : r \in stepRows}
           [] OTHER -> stepRows
    /\ UNCHANGED <<proc, notif, executionIdCache, finality>>
    /\ UNCHANGED <<stepExecutionCache, rc>>
    /\ UNCHANGED exceptFlow

\* The answer of a query reaches the client and the method that sent it
\* resumes after "await this.executeQuery": pool.query resolves with the
\* rows of an executed statement, or rejects, for a rejected statement or
\* because the answer was lost on the way (answerOk = FALSE), and
\* executeQuery turns the rejection into null. An insert sets its cache
\* entry when a row came back; an update deletes its entry in any case.
QueryAnswered(q, answerOk) ==
    /\ q \in queries
    /\ q.state # "sent"
    /\ queries' = queries \ {q}
    /\ LET returned == q.state = "executed" /\ answerOk
       IN /\ rc' = [rc EXCEPT ![q.t].queryFailed = @ \/ ~returned,
                              ![q.t].completeRan = @ \/ q.kind = "flowUpdate"]
          /\ proc' = IF logThrows(returned)
                     THEN [proc EXCEPT ![q.t] = crashed(@, q.by)] ELSE proc
          /\ executionIdCache' =
               CASE q.kind = "flowInsert" ->
                       pgCacheAfterStart(executionIdCache, q.t, returned)
                 [] q.kind = "flowUpdate" -> executionIdCache \ {q.t}
                 [] OTHER -> executionIdCache
          /\ stepExecutionCache' =
               CASE q.kind = "stepInsert" /\ returned ->
                       stepExecutionCache \cup {<<q.t, q.stepName>>}
                 [] q.kind = "stepUpdate" -> stepExecutionCache \ {<<q.t, q.stepName>>}
                 [] OTHER -> stepExecutionCache
    /\ UNCHANGED <<notif, flowRow, finality, stepRows>>
    /\ UNCHANGED exceptFlow

\* What the recorder's answered queries did for a trace.
IdleRc == [completeRan |-> FALSE, queryFailed |-> FALSE]

InitTrace ==
    /\ proc = [t \in TraceIds |-> IdleProc]
    /\ notif = [t \in TraceIds |-> "idle"]
    /\ flowRow = [t \in TraceIds |-> "none"]
    /\ executionIdCache = {}
    /\ finality = [t \in TraceIds |-> <<>>]

InitRecorder ==
    /\ stepRows = {}
    /\ stepExecutionCache = {}
    /\ queries = {}
    /\ rc = [t \in TraceIds |-> IdleRc]

\* Nothing of trace t is running or in flight any more.
TraceQuiescent(t) ==
    /\ proc[t].pc = "end"
    /\ IF \E i \in 1..Len(finality[t]) : finality[t][i] \in NotifSubscribes
       THEN notif[t] \in {"end", "swallowed"}
       ELSE notif[t] = "idle"
    /\ \A q \in queries : q.t # t

\* Handlers under different trace ids share no row and no cache key; the
\* events are taken one trace after the other.
EarlierTracesOver(t) == \A u \in TraceIds : u < t => TraceQuiescent(u)

NextQuoteFlow ==
    \/ \E t \in TraceIds : EarlierTracesOver(t) /\ QcStart(t)
    \/ \E t \in TraceIds, ok \in BOOLEAN : QcFetch(t, ok)
    \/ \E t \in TraceIds, ok \in BOOLEAN : QcCreate(t, ok)
    \/ \E t \in TraceIds : QcCatch(t)
    \/ \E t \in TraceIds : NotifStart(t)
    \/ \E t \in TraceIds, ok \in BOOLEAN : NotifSend(t, ok)
    \/ \E t \in TraceIds, clearOk \in BOOLEAN : NotifClear(t, clearOk)
    \/ \E t \in TraceIds : NotifComplete(t)
    \/ \E q \in queries, queryOk \in BOOLEAN : QueryExecutes(q, queryOk)
    \/ \E q \in queries, answerOk \in BOOLEAN : QueryAnswered(q, answerOk)


(***************************************************************************)
(* 3. WEBHOOK AUTHENTICATION                                               *)
(***************************************************************************)

\* Number of inbound webhook requests explored.
MaxRequests == 1

ReqIds == 1..MaxRequests

\* process.env.WRIKE_WEBHOOK_SECRET, and a key an outsider might use.
WrikeSecret == "secret"
Keys == {WrikeSecret, "guess"}

\* Parsed request bodies: the handshake object, or an array of events. A
\* well-formed event (eventType TaskCustomFieldChanged and the required
\* fields present) is named by the custom field it reports, "date" for
\* Target Install Date; "invalid" is an event of another eventType or with
\* a required field missing.
HandshakeBody == [requestType |-> "WebHook secret verification", events |-> <<>>]
EmptyArray == [requestType |-> "none", events |-> <<>>]
Bodies == {HandshakeBody}
          \cup {[requestType |-> "none", events |-> evs] :
                   evs \in {<<>>, <<"date">>, <<"other", "date">>,
                            <<"invalid">>, <<"date", "invalid">>}}

\* The text of a body in a format: pretty-printed (2 spaces), the same
\* with one indentation space replaced by a tab, or compact. The empty
\* array is "[]" in every format: it has no indentation and no separator.
serialise(fmt, body) ==
    IF body = EmptyArray THEN [fmt |-> "pretty", body |-> body]
    ELSE [fmt |-> fmt, body |-> body]

\* The bytes on the wire.
RawBodies ==
    {serialise(f, b) : f \in {"pretty", "pretty-tab", "compact"}, b \in Bodies}

\* JSON.parse
parse(raw) == raw.body

\* JSON.stringify(body, null, 2)
stringify(body) == serialise("pretty", body)

\* crypto.createHmac("sha256", key).update(value).digest("hex"), taken as
\* collision-free: the digest determines key and value.
hmacSha256(key, value) == [kind |-> "hmac", key |-> key, value |-> value]

\* Values of the x-hook-secret header: absent, a nonce, or the hex digest
\* of some key over some text; a header is itself a string.
NoHeader == [kind |-> "none", key |-> "", value |-> stringify(HandshakeBody)]
NonceHeader == [kind |-> "nonce", key |-> "", value |-> stringify(HandshakeBody)]
Headers ==
    {NoHeader, NonceHeader} \cup {hmacSha256(k, r) : k \in Keys, r \in RawBodies}

\* How the framework hands the body to the step: parsed from JSON, as the
\* text received, or as a Buffer of the bytes received.
Deliveries == {"parsed", "string", "buffer"}

Requests == [raw : RawBodies, header : Headers, delivery : Deliveries]

\* req.body is an object with the given requestType.
bodyRequestType(req) ==
    IF req.delivery = "parsed" THEN parse(req.raw).requestType ELSE "undefined"

\* rawBodyCaptureMiddleware: req.rawBody.
rawBodyCaptureMiddleware(req) ==
    IF req.delivery = "string" THEN req.raw
    ELSE IF req.delivery = "buffer" THEN req.raw
    ELSE stringify(parse(req.raw))

handshakeReplyEcho(wrikeSecret, wrikeHookSecretHeader) == wrikeHookSecretHeader

\* const calculated = this.hmacSha256(wrikeSecret, wrikeHookSecretHeader)
handshakeReply(wrikeSecret, wrikeHookSecretHeader) ==
    hmacSha256(wrikeSecret, wrikeHookSecretHeader)

\* expectedSig === wrikeHookSecretHeader, the digest taken over req.rawBody.
SignatureVerifies(req) ==
    req.header = hmacSha256(WrikeSecret, rawBodyCaptureMiddleware(req))

\* WrikeService.verifyWebhookRequest
verifyWebhookRequest(req) ==
    IF bodyRequestType(req) = "WebHook secret verification"
       /\ req.header # NoHeader
    THEN [isVerification |-> TRUE, isValid |-> TRUE,
          calculatedSecret |-> handshakeReply(WrikeSecret, req.header)]
    ELSE IF req.header # NoHeader
    THEN [isVerification |-> FALSE, isValid |-> SignatureVerifies(req),
          calculatedSecret |-> NoHeader]
    ELSE [isVerification |-> FALSE, isValid |-> FALSE,
          calculatedSecret |-> NoHeader]

\* Array.isArray(req.body)
IsEventArray(req) ==
    req.delivery = "parsed"
    /\ parse(req.raw).requestType # "WebHook secret verification"

\* "const { taskId, eventType } = req.body[0]" throws a TypeError when
\* req.body[0] is undefined: the body is an object that is not an array, or
\* an empty array. The first character of a string and the first byte of a
\* Buffer destructure to undefined fields.
destructureThrows(req) ==
    req.delivery = "parsed" /\ (~IsEventArray(req) \/ parse(req.raw).events = <<>>)

IdleWebhook == [pc |-> "idle", endpoint |-> "wosos",
                req |-> [raw |-> stringify(HandshakeBody), header |-> NoHeader,
                         delivery |-> "parsed"],
                idx |-> 0, status |-> 0, respHeader |-> NoHeader,
                fetches |-> 0, emitted |-> 0]

\* A request arrives at /api/webhooks/wrike/wosos or .../wrike/shopvox-db.
WhReceive(q, endpoint, req) ==
    /\ webhook[q].pc = "idle"
    /\ webhook' = [webhook EXCEPT ![q] =
                     [IdleWebhook EXCEPT !.pc = "verify", !.endpoint = endpoint,
                                         !.req = req]]
    /\ UNCHANGED exceptAuth

\* "for (const event of req.body)": some event has another eventType than
\* TaskCustomFieldChanged or lacks a required field.
hasInvalidEvent(req) ==
    \E i \in 1..Len(parse(req.raw).events) : parse(req.raw).events[i] = "invalid"

\* wrike-wosos-webhook handler up to the event loop: handshake reply, 401 on
\* a failed verification, 400 on a body that is not an array, 400 when an
\* event of the array is not well-formed, 200 at once on an empty array.
WhVerifyWosos(q) ==
    /\ webhook[q].pc = "verify"
    /\ webhook[q].endpoint = "wosos"
    /\ LET v == verifyWebhookRequest(webhook[q].req)
           req == webhook[q].req
       IN webhook' = [webhook EXCEPT
            ![q].pc = IF v.isVerification /\ v.isValid THEN "done"
                      ELSE IF ~v.isVerification /\ ~v.isValid THEN "done"
                      ELSE IF ~IsEventArray(req) THEN "done"
                      ELSE IF hasInvalidEvent(req) THEN "done"
                      ELSE IF parse(req.raw).events = <<>> THEN "done"
                      ELSE "events",
            ![q].status = IF v.isVerification /\ v.isValid THEN 200
                          ELSE IF ~v.isVerification /\ ~v.isValid THEN 401
                          ELSE IF ~IsEventArray(req) THEN 400
                          ELSE IF hasInvalidEvent(req) THEN 400
                          ELSE IF parse(req.raw).events = <<>> THEN 200
                          ELSE 0,
            ![q].respHeader = IF v.isVerification /\ v.isValid
                              THEN v.calculatedSecret ELSE @,
            ![q].idx = 1]
    /\ UNCHANGED exceptAuth

\* wrike-wosos-webhook handler, one iteration of the event loop:
\* getTaskById, then emit for a Target Install Date change; a thrown fetch
\* is caught and the loop continues; after the last event respond 200.
WhEventWosos(q, fetchOk) ==
    /\ webhook[q].pc = "events"
    /\ webhook[q].endpoint = "wosos"
    /\ LET body == parse(webhook[q].req.raw).events
           i == webhook[q].idx
       IN webhook' = [webhook EXCEPT
            ![q].fetches = @ + 1,
            ![q].emitted = IF fetchOk /\ body[i] = "date" THEN @ + 1 ELSE @,
            ![q].idx = i + 1,
            ![q].pc = IF i = Len(body) THEN "done" ELSE "events",
            ![q].status = IF i = Len(body) THEN 200 ELSE @]
    /\ UNCHANGED exceptAuth

\* wrike-shopvox-db-webhook handler up to the fetch: handshake reply,
\* otherwise destructure req.body[0], which may throw out of the handler,
\* and go on.
WhVerifyDb(q) ==
    /\ webhook[q].pc = "verify"
    /\ webhook[q].endpoint = "shopvox-db"
    /\ LET v == verifyWebhookRequest(webhook[q].req)
       IN webhook' = [webhook EXCEPT
            ![q].pc = IF v.isVerification /\ v.isValid THEN "done"
                      ELSE IF destructureThrows(webhook[q].req) THEN "threw"
                      ELSE "fetch",
            ![q].respHeader = IF v.isVerification /\ v.isValid
                              THEN v.calculatedSecret ELSE @,
            ![q].status = IF v.isVerification /\ v.isValid THEN 200 ELSE 0]
    /\ UNCHANGED exceptAuth

\* wrike-shopvox-db-webhook handler: getTaskById, then emit subtask:created
\* when the task has exactly one super task.
WhFetchDb(q, fetchOk, superTasks) ==
    /\ webhook[q].pc = "fetch"
    /\ webhook[q].endpoint = "shopvox-db"
    /\ webhook' = [webhook EXCEPT
            ![q].fetches = @ + 1,
            ![q].emitted = IF fetchOk /\ superTasks = 1 THEN @ + 1 ELSE @,
            ![q].pc = "done",
            ![q].status = IF ~fetchOk THEN 500
                          ELSE IF superTasks = 1 THEN 200 ELSE 404]
    /\ UNCHANGED exceptAuth

InitAuth == webhook = [q \in ReqIds |-> IdleWebhook]

NextWebhook ==
    \/ \E q \in ReqIds, ep \in {"wosos", "shopvox-db"}, req \in Requests :
          WhReceive(q, ep, req)
    \/ \E q \in ReqIds : WhVerifyWosos(q)
    \/ \E q \in ReqIds, fetchOk \in BOOLEAN : WhEventWosos(q, fetchOk)
    \/ \E q \in ReqIds : WhVerifyDb(q)
    \/ \E q \in ReqIds, fetchOk \in BOOLEAN, n \in 0..2 : WhFetchDb(q, fetchOk, n)


(***************************************************************************)
(* 4. RESILIENT REMOTE CALLER                                              *)
(***************************************************************************)

\* Math.random() is explored at the values k / JitterSteps, k < JitterSteps.
JitterSteps == 4

\* An error message is a sequence of words, in the case they were thrown
\* with. \d{3}: the three-digit words, "000" to "999", in numeric order.
ThreeDigits ==
  <<
     "000", "001", "002", "003", "004", "005", "006", "007", "008", "009",
     "010", "011", "012", "013", "014", "015", "016", "017", "018", "019",
     "020", "021", "022", "023", "024", "025", "026", "027", "028", "029",
     "030", "031", "032", "033", "034", "035", "036", "037", "038", "039",
     "040", "041", "042", "043", "044", "045", "046", "047", "048", "049",
     "050", "051", "052", "053", "054", "055", "056", "057", "058", "059",
     "060", "061", "062", "063", "064", "065", "066", "067", "068", "069",
     "070", "071", "072", "073", "074", "075", "076", "077", "078", "079",
     "080", "081", "082", "083", "084", "085", "086", "087", "088", "089",
     "090", "091", "092", "093", "094", "095", "096", "097", "098", "099",
     "100", "101", "102", "103", "104", "105", "106", "107", "108", "109",
     "110", "111", "112", "113", "114", "115", "116", "117", "118", "119",
     "120", "121", "122", "123", "124", "125", "126", "127", "128", "129",
     "130", "131", "132", "133", "134", "135", "136", "137", "138", "139",
     "140", "141", "142", "143", "144", "145", "146", "147", "148", "149",
     "150", "151", "152", "153", "154", "155", "156", "157", "158", "159",
     "160", "161", "162", "163", "164", "165", "166", "167", "168", "169",
     "170", "171", "172", "173", "174", "175", "176", "177", "178", "179",
     "180", "181", "182", "183", "184", "185", "186", "187", "188", "189",
     "190", "191", "192", "193", "194", "195", "196", "197", "198", "199",
     "200", "201", "202", "203", "204", "205", "206", "207", "208", "209",
     "210", "211", "212", "213", "214", "215", "216", "217", "218", "219",
     "220", "221", "222", "223", "224", "225", "226", "227", "228", "229",
     "230", "231", "232", "233", "234", "235", "236", "237", "238", "239",
     "240", "241", "242", "243", "244", "245", "246", "247", "248", "249",
     "250", "251", "252", "253", "254", "255", "256", "257", "258", "259",
     "260", "261", "262", "263", "264", "265", "266", "267", "268", "269",
     "270", "271", "272", "273", "274", "275", "276", "277", "278", "279",
     "280", "281", "282", "283", "284", "285", "286", "287", "288", "289",
     "290", "291", "292", "293", "294", "295", "296", "297", "298", "299",
     "300", "301", "302", "303", "304", "305", "306", "307", "308", "309",
     "310", "311", "312", "313", "314", "315", "316", "317", "318", "319",
     "320", "321", "322", "323", "324", "325", "326", "327", "328", "329",
     "330", "331", "332", "333", "334", "335", "336", "337", "338", "339",
     "340", "341", "342", "343", "344", "345", "346", "347", "348", "349",
     "350", "351", "352", "353", "354", "355", "356", "357", "358", "359",
     "360", "361", "362", "363", "364", "365", "366", "367", "368", "369",
     "370", "371", "372", "373", "374", "375", "376", "377", "378", "379",
     "380", "381", "382", "383", "384", "385", "386", "387", "388", "389",
     "390", "391", "392", "393", "394", "395", "396", "397", "398", "399",
     "400", "401", "402", "403", "404", "405", "406", "407", "408", "409",
     "410", "411", "412", "413", "414", "415", "416", "417", "418", "419",
     "420", "421", "422", "423", "424", "425", "426", "427", "428", "429",
     "430", "431", "432", "433", "434", "435", "436", "437", "438", "439",
     "440", "441", "442", "443", "444", "445", "446", "447", "448", "449",
     "450", "451", "452", "453", "454", "455", "456", "457", "458", "459",
     "460", "461", "462", "463", "464", "465", "466", "467", "468", "469",
     "470", "471", "472", "473", "474", "475", "476", "477", "478", "479",
     "480", "481", "482", "483", "484", "485", "486", "487", "488", "489",
     "490", "491", "492", "493", "494", "495", "496", "497", "498", "499",
     "500", "501", "502", "503", "504", "505", "506", "507", "508", "509",
     "510", "511", "512", "513", "514", "515", "516", "517", "518", "519",
     "520", "521", "522", "523", "524", "525", "526", "527", "528", "529",
     "530", "531", "532", "533", "534", "535", "536", "537", "538", "539",
     "540", "541", "542", "543", "544", "545", "546", "547", "548", "549",
     "550", "551", "552", "553", "554", "555", "556", "557", "558", "559",
     "560", "561", "562", "563", "564", "565", "566", "567", "568", "569",
     "570", "571", "572", "573", "574", "575", "576", "577", "578", "579",
     "580", "581", "582", "583", "584", "585", "586", "587", "588", "589",
     "590", "591", "592", "593", "594", "595", "596", "597", "598", "599",
     "600", "601", "602", "603", "604", "605", "606", "607", "608", "609",
     "610", "611", "612", "613", "614", "615", "616", "617", "618", "619",
     "620", "621", "622", "623", "624", "625", "626", "627", "628", "629",
     "630", "631", "632", "633", "634", "635", "636", "637", "638", "639",
     "640", "641", "642", "643", "644", "645", "646", "647", "648", "649",
     "650", "651", "652", "653", "654", "655", "656", "657", "658", "659",
     "660", "661", "662", "663", "664", "665", "666", "667", "668", "669",
     "670", "671", "672", "673", "674", "675", "676", "677", "678", "679",
     "680", "681", "682", "683", "684", "685", "686", "687", "688", "689",
     "690", "691", "692", "693", "694", "695", "696", "697", "698", "699",
     "700", "701", "702", "703", "704", "705", "706", "707", "708", "709",
     "710", "711", "712", "713", "714", "715", "716", "717", "718", "719",
     "720", "721", "722", "723", "724", "725", "726", "727", "728", "729",
     "730", "731", "732", "733", "734", "735", "736", "737", "738", "739",
     "740", "741", "742", "743", "744", "745", "746", "747", "748", "749",
     "750", "751", "752", "753", "754", "755", "756", "757", "758", "759",
     "760", "761", "762", "763", "764", "765", "766", "767", "768", "769",
     "770", "771", "772", "773", "774", "775", "776", "777", "778", "779",
     "780", "781", "782", "783", "784", "785", "786", "787", "788", "789",
     "790", "791", "792", "793", "794", "795", "796", "797", "798", "799",
     "800", "801", "802", "803", "804", "805", "806", "807", "808", "809",
     "810", "811", "812", "813", "814", "815", "816", "817", "818", "819",
     "820", "821", "822", "823", "824", "825", "826", "827", "828", "829",
     "830", "831", "832", "833", "834", "835", "836", "837", "838", "839",
     "840", "841", "842", "843", "844", "845", "846", "847", "848", "849",
     "850", "851", "852", "853", "854", "855", "856", "857", "858", "859",
     "860", "861", "862", "863", "864", "865", "866", "867", "868", "869",
     "870", "871", "872", "873", "874", "875", "876", "877", "878", "879",
     "880", "881", "882", "883", "884", "885", "886", "887", "888", "889",
     "890", "891", "892", "893", "894", "895", "896", "897", "898", "899",
     "900", "901", "902", "903", "904", "905", "906", "907", "908", "909",
     "910", "911", "912", "913", "914", "915", "916", "917", "918", "919",
     "920", "921", "922", "923", "924", "925", "926", "927", "928", "929",
     "930", "931", "932", "933", "934", "935", "936", "937", "938", "939",
     "940", "941", "942", "943", "944", "945", "946", "947", "948", "949",
     "950", "951", "952", "953", "954", "955", "956", "957", "958", "959",
     "960", "961", "962", "963", "964", "965", "966", "967", "968", "969",
     "970", "971", "972", "973", "974", "975", "976", "977", "978", "979",
     "980", "981", "982", "983", "984", "985", "986", "987", "988", "989",
     "990", "991", "992", "993", "994", "995", "996", "997", "998", "999"
  >>

\* The words (\d{3}) matches.
StatusCodes == {ThreeDigits[i] : i \in 1..1000}

\* The number each three-digit word denotes.
parseInt ==
    [tok \in StatusCodes |-> (CHOOSE i \in 1..1000 : ThreeDigits[i] = tok) - 1]

\* parseInt(statusMatch[1], 10); 0 for a word that is not three digits.
CodeValue(tok) == IF tok \in StatusCodes THEN parseInt[tok] ELSE 0

\* String.prototype.toLowerCase on one word of a message: the words of the
\* model's messages that hold an upper-case letter; every other word is
\* in lower case already.
toLowerCase(tok) ==
    CASE tok = "ECONNREFUSED" -> "econnrefused"
      [] tok = "ECONNRESET" -> "econnreset"
      [] tok = "ENOTFOUND" -> "enotfound"
      [] tok = "ETIMEDOUT" -> "etimedout"
      [] tok = "API" -> "api"
      [] tok = "HTTP" -> "http"
      [] tok = "Timeout" -> "timeout"
      [] tok = "Status" -> "status"
      [] tok = "STATUS" -> "status"
      [] tok = "Request" -> "request"
      [] tok = "Unauthorized" -> "unauthorized"
      [] tok = "Forbidden" -> "forbidden"
      [] tok = "Body is unusable" -> "body is unusable"
      [] tok = "This operation was aborted" -> "this operation was aborted"
      [] tok = "Unexpected token" -> "unexpected token"
      [] OTHER -> tok

\* const lowerMessage = errorMessage.toLowerCase()
lowerMessage(msg) == [i \in DOMAIN msg |-> toLowerCase(msg[i])]

\* w occurs inside the word tok.
OccursIn(w, tok) == w = tok \/ (w = "fetch" /\ tok = "fetch failed")

\* String.prototype.includes, case-sensitive.
Includes(msg, w) == \E i \in 1..Len(msg) : OccursIn(w, msg[i])

\* errorMessage.match(/status[:\s]+(\d{3})/i): the first "status", in any
\* case, that is followed by three digits; 0 when there is no match.
statusMatch(msg) ==
    LET hits == {i \in 1..(Len(msg) - 1) :
                    toLowerCase(msg[i]) = "status" /\ msg[i + 1] \in StatusCodes}
    IN IF hits = {} THEN 0
       ELSE CodeValue(msg[(CHOOSE i \in hits : \A j \in hits : i <= j) + 1])

\* isRetryableError
isRetryableError(error) ==
    LET errorMessage == error.msg
        lower == lowerMessage(errorMessage)
    IN IF error.type = "TypeError" /\ Includes(errorMessage, "fetch") THEN TRUE
       ELSE IF \E w \in {"fetch failed", "network error", "timeout",
                         "econnrefused", "enotfound", "econnreset"} :
                  Includes(lower, w) THEN TRUE
       ELSE IF statusMatch(errorMessage) >= 500 \/ statusMatch(errorMessage) = 429
       THEN TRUE
       ELSE IF statusMatch(errorMessage) >= 400 /\ statusMatch(errorMessage) < 500
       THEN FALSE
       ELSE IF \E w \in {"500", "502", "503", "504", "429"} :
                  Includes(lower, w) THEN TRUE
       ELSE IF \E w \in {"401", "403", "404", "unauthorized", "forbidden"} :
                  Includes(lower, w) THEN FALSE
       ELSE TRUE

RECURSIVE Pow2(_)
Pow2(n) == IF n = 0 THEN 1 ELSE 2 * Pow2(n - 1)

Min(a, b) == IF a <= b THEN a ELSE b

calculateDelayWideJitter(attempt, baseDelayMs, maxDelayMs, k) ==
    LET cappedDelay == Min(baseDelayMs * Pow2(attempt), maxDelayMs)
    IN (cappedDelay * (JitterSteps + 2 * k)) \div (2 * JitterSteps)

\* calculateDelay with Math.random() = k / JitterSteps:
\* floor(capped + capped * 0.25 * (2 * random - 1)).
calculateDelay(attempt, baseDelayMs, maxDelayMs, k) ==
    LET cappedDelay == Min(baseDelayMs * Pow2(attempt), maxDelayMs)
    IN (cappedDelay * (3 * JitterSteps + 2 * k)) \div (4 * JitterSteps)

\* withRetry's default options, and a policy whose backoff reaches the cap.
DefaultPolicy == [maxAttempts |-> 3, baseDelayMs |-> 1000, maxDelayMs |-> 10000]
Policies == {DefaultPolicy,
             [maxAttempts |-> 1, baseDelayMs |-> 16000, maxDelayMs |-> 10000]}

\* The body of a response: JSON text, or text that is not JSON (an HTML
\* error page).
ResponseBodies == {"json", "text"}

\* What "return await response.json()" rejects with on a body that is not
\* JSON.
JsonSyntaxError == [type |-> "SyntaxError", msg |-> <<"Unexpected token">>]

\* "errorDetails = await response.text()" in the catch of a failed
\* response.json(): the body has been read already, text() rejects.
BodyUnusable == [type |-> "TypeError", msg |-> <<"Body is unusable">>]

\* What a ShopVoxService method throws on !response.ok: "... status 503
\* ..." when the body parses as JSON, the rejection of response.text()
\* otherwise.
HttpError(code, body) ==
    IF body = "json" THEN [type |-> "Error", msg |-> <<"status", code>>]
    ELSE BodyUnusable

\* The same in a WrikeService method, whose message reads "...: 503 ...".
BareHttpError(code, body) ==
    IF body = "json" THEN [type |-> "Error", msg |-> <<code>>]
    ELSE BodyUnusable

\* The errors a wrapped operation throws: ShopVox-style and Wrike-style
\* HTTP failures, a failure whose body could not be read, a network
\* failure, an unclassified error, a 404 whose text mentions a timeout, and
\* a thrown value that is a plain string, not an Error.
ErrorSet ==
    {HttpError("503", "json"), BareHttpError("503", "json"),
     HttpError("404", "json"), BareHttpError("404", "json"),
     BareHttpError("400", "json"), HttpError("429", "json"),
     HttpError("410", "json"), HttpError("404", "text"),
     [type |-> "TypeError", msg |-> <<"fetch failed">>],
     [type |-> "Error", msg |-> <<"validation">>],
     [type |-> "Error", msg |-> <<"status", "404", "timeout">>],
     [type |-> "string", msg |-> <<"forbidden">>]}

\* getRetryMetadata(error) when the error has no retryMetadata property.
NoRetryMetadata == [attached |-> FALSE, totalAttempts |-> 0, delays |-> <<>>,
                    errors |-> <<>>, isRetryable |-> FALSE]

\* error instanceof Error
instanceofError(error) ==
    error.type \in {"Error", "TypeError", "AbortError", "SyntaxError"}

\* "if (error instanceof Error) error.retryMetadata = metadata": what
\* getRetryMetadata finds on the value withRetry rethrows.
attachRetryMetadata(error, metadata) ==
    IF instanceofError(error)
    THEN [attached |-> TRUE, totalAttempts |-> metadata.totalAttempts,
          delays |-> metadata.delays, errors |-> metadata.errors,
          isRetryable |-> metadata.isRetryable]
    ELSE NoRetryMetadata

IdleRetry == [pc |-> "idle", policy |-> DefaultPolicy, attempt |-> 0,
              totalAttempts |-> 0, delays |-> <<>>, errors |-> <<>>,
              isRetryable |-> FALSE, retryMetadata |-> NoRetryMetadata]

\* withRetry(fn, options): set up metadata and enter the loop.
RetryCall(policy) ==
    /\ retry.pc = "idle"
    /\ retry' = [IdleRetry EXCEPT !.pc = "calling", !.policy = policy]
    /\ UNCHANGED <<wrikeCall, svCall>>
    /\ UNCHANGED exceptCall

\* One loop iteration in which fn() resolves: the result is returned.
RetryAttemptOk ==
    /\ retry.pc = "calling"
    /\ retry' = [retry EXCEPT !.pc = "returned",
                              !.totalAttempts = retry.attempt + 1]
    /\ UNCHANGED <<wrikeCall, svCall>>
    /\ UNCHANGED exceptCall

\* One loop iteration in which fn() throws: record the error, rethrow on
\* the last attempt or a non-retryable error, else compute the delay.
RetryAttemptThrows(error, k) ==
    /\ retry.pc = "calling"
    /\ LET retryable == isRetryableError(error)
           stop == retry.attempt = retry.policy.maxAttempts \/ ~retryable
           delayMs == calculateDelay(retry.attempt, retry.policy.baseDelayMs,
                                     retry.policy.maxDelayMs, k)
           metadata == [totalAttempts |-> retry.attempt + 1,
                        delays |-> retry.delays,
                        errors |-> Append(retry.errors, error),
                        isRetryable |-> retryable]
       IN retry' = [retry EXCEPT
            !.totalAttempts = retry.attempt + 1,
            !.errors = Append(@, error),
            !.isRetryable = retryable,
            !.delays = IF stop THEN @ ELSE Append(@, delayMs),
            !.retryMetadata = IF stop THEN attachRetryMetadata(error, metadata)
                              ELSE @,
            !.pc = IF stop THEN "thrown" ELSE "sleeping"]
    /\ UNCHANGED <<wrikeCall, svCall>>
    /\ UNCHANGED exceptCall

RetryWakeSameAttempt ==
    /\ retry.pc = "sleeping"
    /\ retry' = [retry EXCEPT !.pc = "calling"]
    /\ UNCHANGED <<wrikeCall, svCall>>
    /\ UNCHANGED exceptCall

\* The setTimeout promise resolves: next loop iteration.
RetryWake ==
    /\ retry.pc = "sleeping"
    /\ retry' = [retry EXCEPT !.pc = "calling", !.attempt = @ + 1]
    /\ UNCHANGED <<wrikeCall, svCall>>
    /\ UNCHANGED exceptCall

NextRetry ==
    \/ \E policy \in Policies : RetryCall(policy)
    \/ RetryAttemptOk
    \/ \E error \in ErrorSet, k \in 0..(JitterSteps - 1) :
          RetryAttemptThrows(error, k)
    \/ RetryWake

\* Wall-clock time is followed in steps of TickMs while an attempt is in
\* flight, for at most MaxElapsed steps.
TickMs == 10000
MaxElapsed == 5

\* What fetch() rejects with inside makeRequest: the abort raised by
\* controller.abort() (a DOMException named AbortError), undici's
\* TypeError, errors whose message names a timeout, a connection reset or
\* a failed DNS lookup, and an error of none of these kinds.
AbortError == [type |-> "AbortError", msg |-> <<"This operation was aborted">>]
FetchErrors ==
    {AbortError,
     [type |-> "TypeError", msg |-> <<"fetch failed">>],
     [type |-> "Error", msg |-> <<"socket", "timeout">>],
     [type |-> "Error", msg |-> <<"read", "ECONNRESET">>],
     [type |-> "Error", msg |-> <<"getaddrinfo", "ENOTFOUND">>],
     [type |-> "Error", msg |-> <<"certificate", "expired">>]}

\* The statuses a Wrike response has.
ResponseStatuses == {200, 404, 429, 503}

\* `${response.status}` in an error message
StatusText(status) ==
    CASE status = 404 -> "404" [] status = 429 -> "429" [] status = 503 -> "503"
      [] OTHER -> "200"

WrikeOperations ==
    {"getTaskById", "findTaskByQuoteId", "createQuoteTask", "updateQuoteTask",
     "findTaskBySalesOrderId", "createWosoTask", "updateWosoTask", "updateSubtask"}

\* last: what the latest fetch settled with; surfaced: the error the
\* WrikeService method throws to its caller.
NoFetchError == [type |-> "none", msg |-> <<>>]
IdleWrikeCall == [pc |-> "idle", operation |-> "findTaskBySalesOrderId",
                  retryCount |-> 0, fetches |-> 0, delays |-> <<>>,
                  last |-> [kind |-> "response", status |-> 200,
                            error |-> NoFetchError],
                  surfaced |-> NoFetchError,
                  elapsed |-> 0]

makeRequestShouldRetryAny(error) == TRUE

\* makeRequest's catch block: which thrown errors it retries.
makeRequestShouldRetry(error) ==
    /\ instanceofError(error)
    /\ \/ error.type = "AbortError"
       \/ Includes(error.msg, "fetch failed")
       \/ Includes(error.msg, "timeout")
       \/ Includes(error.msg, "ECONNRESET")
       \/ Includes(error.msg, "ENOTFOUND")

\* A WrikeService method calls makeRequest(url, options).
WrikeCallStart(operation) ==
    /\ wrikeCall.pc = "idle"
    /\ wrikeCall' = [IdleWrikeCall EXCEPT !.pc = "fetching",
                                          !.operation = operation]
    /\ UNCHANGED <<retry, svCall>>
    /\ UNCHANGED exceptCall

\* makeRequest: fetch resolves with the response headers; the abort timer
\* is cleared and the response is returned whatever its status.
WrikeFetchResponds(status) ==
    /\ wrikeCall.pc = "fetching"
    /\ wrikeCall' = [wrikeCall EXCEPT
            !.fetches = @ + 1,
            !.last = [kind |-> "response", status |-> status,
                      error |-> NoFetchError],
            !.pc = "reading"]
    /\ UNCHANGED <<retry, svCall>>
    /\ UNCHANGED exceptCall

\* The calling method's awaited body read ends: "return await
\* response.json()" on an ok response, the json() / text() pair and the
\* throw on !response.ok. No timer runs while the body is read.
WrikeBodyRead(body) ==
    /\ wrikeCall.pc = "reading"
    /\ LET status == wrikeCall.last.status
       IN wrikeCall' = [wrikeCall EXCEPT
            !.elapsed = 0,
            !.surfaced = IF status # 200 THEN BareHttpError(StatusText(status), body)
                         ELSE IF body = "json" THEN NoFetchError
                         ELSE JsonSyntaxError,
            !.pc = IF status = 200 /\ body = "json" THEN "returned" ELSE "thrown"]
    /\ UNCHANGED <<retry, svCall>>
    /\ UNCHANGED exceptCall

\* makeRequest: fetch rejects. When the error is one the catch block
\* retries and retries remain, a timer of retryDelay * (retryCount + 1) is
\* awaited; otherwise the error is rethrown. The abort is the one
\* controller.abort() raises when the timer set for requestTimeout fires.
WrikeFetchThrows(error) ==
    /\ wrikeCall.pc = "fetching"
    /\ error = AbortError => wrikeCall.elapsed * TickMs >= requestTimeout
    /\ LET again == makeRequestShouldRetry(error)
                    /\ wrikeCall.retryCount < maxRetries
       IN wrikeCall' = [wrikeCall EXCEPT
            !.elapsed = 0,
            !.fetches = @ + 1,
            !.last = [kind |-> "throws", status |-> 0, error |-> error],
            !.delays = IF again THEN Append(@, retryDelay * (wrikeCall.retryCount + 1))
                       ELSE @,
            !.surfaced = IF again THEN @ ELSE error,
            !.pc = IF again THEN "sleeping" ELSE "thrown"]
    /\ UNCHANGED <<retry, svCall>>
    /\ UNCHANGED exceptCall

\* The retry timer fires: makeRequest(url, options, retryCount + 1, ...)
\* starts its own abort timer and sends the next fetch.
WrikeWake ==
    /\ wrikeCall.pc = "sleeping"
    /\ wrikeCall' = [wrikeCall EXCEPT !.pc = "fetching", !.retryCount = @ + 1]
    /\ UNCHANGED <<retry, svCall>>
    /\ UNCHANGED exceptCall

\* Time passes while the fetch is pending, up to the moment the abort
\* timer fires, and while the body is read, where no timer is pending.
WrikeTick ==
    /\ \/ wrikeCall.pc = "fetching" /\ wrikeCall.elapsed * TickMs < requestTimeout
       \/ wrikeCall.pc = "reading" /\ wrikeCall.elapsed < MaxElapsed
    /\ wrikeCall' = [wrikeCall EXCEPT !.elapsed = @ + 1]
    /\ UNCHANGED <<retry, svCall>>
    /\ UNCHANGED exceptCall

NextWrikeCall ==
    \/ \E operation \in WrikeOperations : WrikeCallStart(operation)
    \/ \E status \in ResponseStatuses : WrikeFetchResponds(status)
    \/ \E body \in ResponseBodies : WrikeBodyRead(body)
    \/ \E error \in FetchErrors : WrikeFetchThrows(error)
    \/ WrikeWake
    \/ WrikeTick

\* The ShopVoxService methods: each awaits withRetry(async () => fetch(url,
\* {method, headers}) ...) with the default options.
ShopVoxOperations == {"getSalesOrder", "updateSalesOrder"}

IdleSvCall == [pc |-> "idle", operation |-> "getSalesOrder", attempt |-> 0,
               elapsed |-> 0]

\* What the fetch of a ShopVox attempt settles with: a 2xx response, or an
\* error thrown by the wrapped function.
SvOutcomes ==
    {[ok |-> TRUE, error |-> NoFetchError]}
    \cup {[ok |-> FALSE, error |-> e] :
             e \in {HttpError("503", "json"), HttpError("404", "json"),
                    HttpError("404", "text"),
                    [type |-> "TypeError", msg |-> <<"fetch failed">>]}}

\* A handler calls a ShopVoxService method; the first attempt's fetch is
\* sent.
SvCallStart(operation) ==
    /\ svCall.pc \in {"idle", "returned", "thrown"}
    /\ svCall' = [IdleSvCall EXCEPT !.pc = "fetching", !.operation = operation]
    /\ UNCHANGED <<retry, wrikeCall>>
    /\ UNCHANGED exceptCall

\* The attempt's fetch settles. Nothing in the method bounds how long that
\* takes: the fetch is given no signal and no timer is started.
SvFetchSettles(outcome) ==
    /\ svCall.pc = "fetching"
    /\ LET stop == svCall.attempt = DefaultPolicy.maxAttempts
                   \/ ~isRetryableError(outcome.error)
       IN svCall' = [svCall EXCEPT
            !.elapsed = 0,
            !.pc = IF outcome.ok THEN "returned"
                   ELSE IF stop THEN "thrown" ELSE "sleeping"]
    /\ UNCHANGED <<retry, wrikeCall>>
    /\ UNCHANGED exceptCall

\* withRetry's backoff timer fires: the next attempt's fetch is sent.
SvWake ==
    /\ svCall.pc = "sleeping"
    /\ svCall' = [svCall EXCEPT !.pc = "fetching", !.attempt = @ + 1]
    /\ UNCHANGED <<retry, wrikeCall>>
    /\ UNCHANGED exceptCall

\* Time passes while the fetch is pending; no timer belongs to the attempt.
SvTick ==
    /\ svCall.pc = "fetching"
    /\ svCall.elapsed < MaxElapsed
    /\ svCall' = [svCall EXCEPT !.elapsed = @ + 1]
    /\ UNCHANGED <<retry, wrikeCall>>
    /\ UNCHANGED exceptCall

\* The settled call's result has been consumed by its caller.
SvReset ==
    /\ svCall.pc \in {"returned", "thrown"}
    /\ svCall' = IdleSvCall
    /\ UNCHANGED <<retry, wrikeCall>>
    /\ UNCHANGED exceptCall

NextSvCall ==
    \/ \E operation \in ShopVoxOperations : SvCallStart(operation)
    \/ \E outcome \in SvOutcomes : SvFetchSettles(outcome)
    \/ SvWake
    \/ SvTick
    \/ SvReset

InitCall == retry = IdleRetry /\ wrikeCall = IdleWrikeCall /\ svCall = IdleSvCall


(***************************************************************************)
(* 5. LOOP GUARDS                                                          *)
(***************************************************************************)

\* Days of one month; day d stands for the date string "2024-05-0d".
MaxDay == 2
Days == 1..MaxDay

\* A date value as the two systems send it: null, "", an unparseable
\* string, a date-only string (possibly surrounded by blanks), or an ISO
\* timestamp with a local hour and a UTC offset in hours.
NullDate == [kind |-> "null", day |-> 0, hour |-> 0, offset |-> 0, padded |-> FALSE]
EmptyDate == [kind |-> "empty", day |-> 0, hour |-> 0, offset |-> 0, padded |-> FALSE]
InvalidDate == [kind |-> "invalid", day |-> 0, hour |-> 0, offset |-> 0, padded |-> FALSE]
DateOnly(d, padded) ==
    [kind |-> "date", day |-> d, hour |-> 0, offset |-> 0, padded |-> padded]
Timestamp(d, h, o) ==
    [kind |-> "ts", day |-> d, hour |-> h, offset |-> o, padded |-> FALSE]

DateStrings ==
    {EmptyDate, InvalidDate}
    \cup {DateOnly(d, padded) : d \in Days, padded \in BOOLEAN}
    \cup {Timestamp(d, 0, 0) : d \in Days}
    \cup {Timestamp(d, 23, -5) : d \in Days}

DateValues == DateStrings \cup {NullDate}

\* String.prototype.trim
trim(s) == IF s.kind = "date" THEN [s EXCEPT !.padded = FALSE] ELSE s

\* getUTCDate of new Date(s) for a timestamp: the local hour less the offset
\* may fall on the next or the previous day.
utcDay(s) ==
    LET utcHour == s.hour - s.offset
    IN IF utcHour >= 24 THEN s.day + 1
       ELSE IF utcHour < 0 THEN s.day - 1
       ELSE s.day

\* normalizeDateForComparison: <<>> is "", <<d>> is "2024-05-0d".
normalizeDateForComparison(dateString) ==
    IF dateString.kind \in {"null", "empty"} THEN <<>>
    ELSE IF trim(dateString).kind = "date" THEN <<trim(dateString).day>>
    ELSE IF dateString.kind = "invalid" THEN <<>>
    ELSE <<utcDay(dateString)>>

\* sanitizeWrikeCustomFieldValue on a date value
sanitizeWrikeCustomFieldValue(value) ==
    IF value.kind = "null" THEN EmptyDate ELSE value

\* ShopVox users: one with a Wrike mapping, one without.
ShopVoxUsers == {"sv-1", "sv-x"}
DEFAULT_WRIKE_USER_ID == "wk-default"

mapShopVoxToWrikeUserId(shopVoxUserId) ==
    IF shopVoxUserId = "sv-1" THEN "wk-1" ELSE DEFAULT_WRIKE_USER_ID

\* "" stands for undefined.
mapShopVoxUserIdToWrikeApiV2Id(shopVoxUserId) ==
    IF shopVoxUserId = "sv-1" THEN "v2-1"
    ELSE IF shopVoxUserId = "sv-d" THEN "v2-default"
    ELSE ""

\* The ids a Wrike contact field may hold, as the list the handler splits.
WrikeUserValues == {<<>>, <<"wk-1">>, <<"v2-1">>, <<DEFAULT_WRIKE_USER_ID>>}

Unfetched == [kind |-> "unfetched", day |-> 0, hour |-> 0, offset |-> 0, padded |-> FALSE]

\* What a handler has had the trace recorder write: the flow row's status,
\* the step outcomes and the API-call records. The two loop-guard handlers
\* import nothing from the observability logger and call none of it.
NoRecorderCalls == [flow |-> "none", steps |-> <<>>, apiCalls |-> <<>>]

\* calls: the dueDate argument of each updateSalesOrder call; writes: the
\* workOrder.dueDate of each PUT body sent; result: how updateSalesOrder
\* settled.
IdleTid == [pc |-> "idle", dueDate |-> EmptyDate, fetched |-> Unfetched,
            seen |-> Unfetched, calls |-> <<>>, writes |-> <<>>,
            result |-> "none", finality |-> <<>>, recorder |-> NoRecorderCalls]

\* The Wrike webhook step handles a Target Install Date event: it fetches
\* the task with getTaskById, reads the ShopVox id from it, and emits
\* wrike-woso-target-install-date-changed with dueDate = event.value.
TidReceive(dueDate) ==
    /\ tid.pc \in {"idle", "done"}
    /\ wosoTask.exists
    /\ tid' = [IdleTid EXCEPT !.pc = "guard", !.dueDate = dueDate,
                              !.fetched = wosoTask.targetInstallDate]
    /\ UNCHANGED <<salesOrder, wosoTask, wou>>
    /\ UNCHANGED exceptGuard

loopCheckFailClosed(lookupOk, matches) ==
    IF lookupOk /\ ~matches THEN "proceed" ELSE "skip"

\* The shape every loop-detection block has: the comparison sits in a try
\* whose catch logs a warning and continues, so only a lookup that
\* succeeded and found equal values ends the handler.
loopCheck(lookupOk, matches) ==
    IF lookupOk /\ matches THEN "skip" ELSE "proceed"

LoopDetectedAnyDate(wrikeDueDate, shopvoxDueDate) == wrikeDueDate # <<>>

LoopDetectedEmptyToo(wrikeDueDate, shopvoxDueDate) == wrikeDueDate = shopvoxDueDate

\* wrikeDueDate === shopvoxDueDate && wrikeDueDate !== ""
LoopDetected(wrikeDueDate, shopvoxDueDate) ==
    wrikeDueDate = shopvoxDueDate /\ wrikeDueDate # <<>>

\* Loop prevention block: read the sales order and compare the normalised
\* dates; a failed read falls through to the update.
TidGuard(fetchOk) ==
    /\ tid.pc = "guard"
    /\ LET wrikeDueDate == normalizeDateForComparison(tid.dueDate)
           shopvoxDueDate == normalizeDateForComparison(salesOrder.dueDate)
           seen == IF fetchOk THEN salesOrder.dueDate ELSE Unfetched
       IN IF loopCheck(fetchOk, LoopDetected(wrikeDueDate, shopvoxDueDate)) = "skip"
          THEN tid' = [tid EXCEPT
                   !.seen = seen,
                   !.finality = Append(@,
                       [topic |-> "finality:target-install-date-updated-success",
                        skipped |-> TRUE, reason |-> "loop_prevention"]),
                   !.pc = "done"]
          ELSE tid' = [tid EXCEPT !.seen = seen, !.pc = "update"]
    /\ UNCHANGED <<salesOrder, wosoTask, wou>>
    /\ UNCHANGED exceptGuard

\* A PUT body whose workOrder has no dueDate key.
NoDueDateKey == [kind |-> "absent", day |-> 0, hour |-> 0, offset |-> 0, padded |-> FALSE]

\* updateSalesOrder's request body: "if (updates.dueDate)
\* requestBody.workOrder.dueDate = updates.dueDate", so an empty string
\* leaves the key out.
requestBodyDueDate(dueDate) ==
    IF dueDate.kind \in {"empty", "null"} THEN NoDueDateKey ELSE dueDate

\* How one attempt of updateSalesOrder's withRetry ends: the PUT answered
\* 2xx, it failed and withRetry sends it again after the backoff, or it
\* failed and withRetry rethrows.
PutOutcomes == {"ok", "retry", "throw"}

\* updateSalesOrder(id, {dueDate: input.dueDate}): one attempt of its
\* withRetry. Every attempt sends the PUT again, with the same body, and
\* withRetry retries at most maxAttempts times. ShopVox stores the due date
\* of an accepted PUT that carries one.
TidUpdate(outcome) ==
    /\ tid.pc = "update"
    /\ outcome = "retry" => Len(tid.writes) < DefaultPolicy.maxAttempts
    /\ tid' = [tid EXCEPT
            !.calls = IF tid.writes = <<>> THEN Append(@, tid.dueDate) ELSE @,
            !.writes = Append(@, requestBodyDueDate(tid.dueDate)),
            !.result = CASE outcome = "ok" -> "success"
                         [] outcome = "throw" -> "error"
                         [] OTHER -> @,
            !.pc = IF outcome = "retry" THEN "update" ELSE "emit"]
    /\ salesOrder' = IF outcome = "ok" /\ requestBodyDueDate(tid.dueDate) # NoDueDateKey
                     THEN [salesOrder EXCEPT !.dueDate = tid.dueDate]
                     ELSE salesOrder
    /\ UNCHANGED <<wosoTask, wou>>
    /\ UNCHANGED exceptGuard

\* After updateSalesOrder has settled and the log entry is stored: the
\* finality event, from the try block or from the catch block.
TidEmit ==
    /\ tid.pc = "emit"
    /\ tid' = [tid EXCEPT
            !.finality = Append(@,
                IF tid.result = "success"
                THEN [topic |-> "finality:target-install-date-updated-success",
                      skipped |-> FALSE, reason |-> "none"]
                ELSE [topic |-> "finality:error:target-install-date-updated",
                      skipped |-> FALSE, reason |-> "none"]),
            !.pc = "done"]
    /\ UNCHANGED <<salesOrder, wosoTask, wou>>
    /\ UNCHANGED exceptGuard

\* The handler's promise has settled; its invocation record is dropped.
TidReturn ==
    /\ tid.pc = "done"
    /\ tid' = IdleTid
    /\ UNCHANGED <<salesOrder, wosoTask, wou>>
    /\ UNCHANGED exceptGuard

\* A ShopVox user edits the sales order between handler invocations.
SalesOrderEdit(dueDate, projectManager) ==
    /\ tid.pc = "idle"
    /\ wou.pc = "idle"
    /\ salesOrder' = [dueDate |-> dueDate, projectManager |-> projectManager]
    /\ salesOrder' # salesOrder
    /\ UNCHANGED <<wosoTask, tid, wou>>
    /\ UNCHANGED exceptGuard

NextDateGuard ==
    \/ \E dueDate \in DateStrings : TidReceive(dueDate)
    \/ \E fetchOk \in BOOLEAN : TidGuard(fetchOk)
    \/ \E outcome \in PutOutcomes : TidUpdate(outcome)
    \/ TidEmit
    \/ TidReturn
    \/ \E dueDate \in DateValues, projectManager \in ShopVoxUsers :
          SalesOrderEdit(dueDate, projectManager)

\* The keys a ShopVox change-set carries, in the order Object.keys yields.
ChangeKeys == {"updated_at", "due_date", "project_manager_id"}
MaxKeys == 3

RECURSIVE KeyLists(_)
KeyLists(n) ==
    IF n = 0 THEN {<<>>}
    ELSE LET shorter == KeyLists(n - 1)
         IN shorter \cup
            {Append(ks, k) : ks \in {l \in shorter : Len(l) = n - 1},
                             k \in ChangeKeys}

NoDuplicates(ks) == \A i, j \in 1..Len(ks) : i # j => ks[i] # ks[j]

\* input.changes: its keys in order, and the new value of project_manager_id
\* ("none" when the tuple's second element is null).
ChangeSets ==
    {[keys |-> ks, pmNew |-> u] :
        ks \in {l \in KeyLists(MaxKeys) : l # <<>> /\ NoDuplicates(l)},
        u \in ShopVoxUsers \cup {"none"}}

userFieldMapping == {"estimator_id", "primary_sales_rep_id", "project_manager_id"}

\* The handler's local variable salesOrder before getSalesOrder has answered.
NoSalesOrder == [dueDate |-> Unfetched, projectManager |-> "none"]

\* salesOrder: the record getSalesOrder returned; calls: the calls of
\* createOrUpdateWosoTask; found: what its search answered; writes: the
\* number of PUT or POST fetches it made; created: the tasks Wrike created
\* for them; retryCount: makeRequest's argument in the pending one; result:
\* how it settled.
IdleWou == [pc |-> "idle", changes |-> [keys |-> <<"updated_at">>, pmNew |-> "none"],
            salesOrder |-> NoSalesOrder, calls |-> 0, found |-> FALSE,
            writes |-> 0, created |-> 0, retryCount |-> 0, result |-> "none",
            finality |-> <<>>,
            lookupFailed |-> FALSE, recorder |-> NoRecorderCalls]

\* ShopVox posts work_order:updated.
WouReceive(changes) ==
    /\ wou.pc \in {"idle", "done"}
    /\ wou' = [IdleWou EXCEPT !.pc = "fetch", !.changes = changes]
    /\ UNCHANGED <<salesOrder, wosoTask, tid>>
    /\ UNCHANGED exceptGuard

\* getSalesOrder; a failure emits the error finality event and returns.
WouFetch(fetchOk) ==
    /\ wou.pc = "fetch"
    /\ wou' = IF fetchOk
              THEN [wou EXCEPT !.salesOrder = salesOrder, !.pc = "dateGuard"]
              ELSE [wou EXCEPT
                      !.finality = Append(@, [topic |-> "finality:error:work-order-updated",
                                              skipped |-> FALSE, reason |-> "none"]),
                      !.pc = "done"]
    /\ UNCHANGED <<salesOrder, wosoTask, tid>>
    /\ UNCHANGED exceptGuard

\* changeKeys.length === 2 && changeKeys[1] === "due_date"
isOnlyDueDateChange(changeKeys) ==
    Len(changeKeys) = 2 /\ changeKeys[2] = "due_date"

\* salesOrder.dueDate?.trim() || ""
trimOrEmpty(value) == IF value.kind = "null" THEN EmptyDate ELSE trim(value)

SkipFinality == [topic |-> "finality:work-order-updated-success", skipped |-> TRUE,
                 reason |-> "loop_prevention"]

\* Due-date loop detection: when the change-set has the date-only shape,
\* search the Wrike task and skip when its date equals the date of the
\* sales order the handler fetched.
WouDateGuard(searchOk) ==
    /\ wou.pc = "dateGuard"
    /\ LET checked == isOnlyDueDateChange(wou.changes.keys)
           matches == /\ wosoTask.exists
                      /\ trimOrEmpty(wou.salesOrder.dueDate)
                           = trimOrEmpty(wosoTask.targetInstallDate)
       IN IF checked /\ loopCheck(searchOk, matches) = "skip"
          THEN wou' = [wou EXCEPT !.finality = Append(@, SkipFinality), !.pc = "done"]
          ELSE wou' = [wou EXCEPT !.pc = "userGuard",
                                  !.lookupFailed = @ \/ (checked /\ ~searchOk)]
    /\ UNCHANGED <<salesOrder, wosoTask, tid>>
    /\ UNCHANGED exceptGuard

\* wrikeUserIds.includes(wrikeUserId) || (wrikeApiV2Id && includes(wrikeApiV2Id))
UserMatches(wrikeUserIds, newShopVoxUserId) ==
    \E i \in 1..Len(wrikeUserIds) :
        \/ wrikeUserIds[i] = mapShopVoxToWrikeUserId(newShopVoxUserId)
        \/ /\ mapShopVoxUserIdToWrikeApiV2Id(newShopVoxUserId) # ""
           /\ wrikeUserIds[i] = mapShopVoxUserIdToWrikeApiV2Id(newShopVoxUserId)

\* User-field loop detection: updated_at plus one user field.
WouUserGuard(searchOk) ==
    /\ wou.pc = "userGuard"
    /\ LET changeKeys == wou.changes.keys
           shape == Len(changeKeys) = 2
                    /\ \E i \in 1..Len(changeKeys) : changeKeys[i] = "updated_at"
           userFieldKey == IF changeKeys[1] # "updated_at" THEN changeKeys[1]
                           ELSE changeKeys[Len(changeKeys)]
           checked == shape /\ userFieldKey \in userFieldMapping
           matches == /\ wosoTask.exists
                      /\ wou.changes.pmNew # "none"
                      /\ UserMatches(wosoTask.projectManager, wou.changes.pmNew)
       IN IF checked /\ loopCheck(searchOk, matches) = "skip"
          THEN wou' = [wou EXCEPT !.finality = Append(@, SkipFinality), !.pc = "done"]
          ELSE wou' = [wou EXCEPT !.pc = "reconcile",
                                  !.lookupFailed = @ \/ (checked /\ ~searchOk)]
    /\ UNCHANGED <<salesOrder, wosoTask, tid>>
    /\ UNCHANGED exceptGuard

\* createOrUpdateWosoTask(salesOrder, ...): its findTaskBySalesOrderId. A
\* failed search is rethrown to the handler's catch block.
WouSearch(searchOk) ==
    /\ wou.pc = "reconcile"
    /\ wou' = IF searchOk
              THEN [wou EXCEPT !.calls = @ + 1, !.found = wosoTask.exists,
                               !.pc = "write"]
              ELSE [wou EXCEPT !.calls = @ + 1, !.result = "error", !.pc = "emit"]
    /\ UNCHANGED <<salesOrder, wosoTask, tid>>
    /\ UNCHANGED exceptGuard

\* createOrUpdateWosoTask: one fetch of updateWosoTask's PUT to the task
\* found, or of createWosoTask's POST when none was; both carry the fields
\* of the sales order the handler fetched at its start. A PUT Wrike carries
\* out overwrites the task's fields. A POST it carries out creates a task
\* (wou.created): the first one of the sales order, which later searches
\* return as data[0] (wosoTask), or, after an earlier POST whose answer was
\* lost, a further one next to it.
WouReconcile(outcome) ==
    /\ wou.pc = "write"
    /\ outcome \in WriteOutcomes
    /\ LET resent == requestResent(outcome, wou.retryCount)
       IN wou' = [wou EXCEPT
               !.writes = @ + 1,
               !.created = IF requestApplied(outcome) /\ ~wou.found
                           THEN @ + 1 ELSE @,
               !.retryCount = IF resent THEN @ + 1 ELSE 0,
               !.result = IF resent THEN @
                          ELSE IF requestReturns(outcome) THEN "success"
                          ELSE "error",
               !.pc = IF resent THEN "write" ELSE "emit"]
    /\ wosoTask' =
         IF ~requestApplied(outcome) THEN wosoTask
         ELSE IF ~wou.found /\ wosoTask.exists THEN wosoTask
         ELSE [wosoTask EXCEPT
                 !.exists = TRUE,
                 !.targetInstallDate =
                     sanitizeWrikeCustomFieldValue(wou.salesOrder.dueDate),
                 !.projectManager =
                     <<mapShopVoxToWrikeUserId(wou.salesOrder.projectManager)>>]
    /\ UNCHANGED <<salesOrder, tid>>
    /\ UNCHANGED exceptGuard

\* After createOrUpdateWosoTask has settled and the log entries are stored:
\* the finality event, from the try block or from the catch block.
WouEmit ==
    /\ wou.pc = "emit"
    /\ wou' = [wou EXCEPT
            !.finality = Append(@,
                IF wou.result = "success"
                THEN [topic |-> "finality:work-order-updated-success",
                      skipped |-> FALSE, reason |-> "none"]
                ELSE [topic |-> "finality:error:work-order-updated",
                      skipped |-> FALSE, reason |-> "none"]),
            !.pc = "done"]
    /\ UNCHANGED <<salesOrder, wosoTask, tid>>
    /\ UNCHANGED exceptGuard

\* The handler's promise has settled; its invocation record is dropped.
WouReturn ==
    /\ wou.pc = "done"
    /\ wou' = IdleWou
    /\ UNCHANGED <<salesOrder, wosoTask, tid>>
    /\ UNCHANGED exceptGuard

\* A Wrike user edits the task's fields between handler invocations.
WosoTaskEdit(targetInstallDate, projectManager) ==
    /\ wosoTask.exists
    /\ wou.pc = "idle"
    /\ tid.pc = "idle"
    /\ wosoTask' = [wosoTask EXCEPT !.targetInstallDate = targetInstallDate,
                                    !.projectManager = projectManager]
    /\ wosoTask' # wosoTask
    /\ UNCHANGED <<salesOrder, tid, wou>>
    /\ UNCHANGED exceptGuard

NextChangeGuard ==
    \/ \E changes \in ChangeSets : WouReceive(changes)
    \/ \E fetchOk \in BOOLEAN : WouFetch(fetchOk)
    \/ \E searchOk \in BOOLEAN : WouDateGuard(searchOk)
    \/ \E searchOk \in BOOLEAN : WouUserGuard(searchOk)
    \/ \E searchOk \in BOOLEAN : WouSearch(searchOk)
    \/ \E outcome \in WriteOutcomes : WouReconcile(outcome)
    \/ WouEmit
    \/ WouReturn
    \/ \E targetInstallDate \in DateStrings, projectManager \in WrikeUserValues :
          WosoTaskEdit(targetInstallDate, projectManager)
    \/ \E dueDate \in DateValues, projectManager \in ShopVoxUsers :
          SalesOrderEdit(dueDate, projectManager)

\* The sales order either has no Wrike task yet or has one in sync with it.
InitGuard ==
    /\ salesOrder = [dueDate |-> DateOnly(1, FALSE), projectManager |-> "sv-1"]
    /\ wosoTask \in
         {[exists |-> FALSE, targetInstallDate |-> EmptyDate, projectManager |-> <<>>],
          [exists |-> TRUE, targetInstallDate |-> DateOnly(1, FALSE),
           projectManager |-> <<mapShopVoxToWrikeUserId("sv-1")>>]}
    /\ tid = IdleTid
    /\ wou = IdleWou


(***************************************************************************)
(* 6. RESPONSIBLES DELTA                                                   *)
(***************************************************************************)

\* ShopVox users an ownership change may name: the users above and the
\* user whose table entry carries the fallback Wrike id.
Owners == ShopVoxUsers \cup {"sv-d"}

WrikeUserIds == {mapShopVoxToWrikeUserId(u) : u \in Owners}

\* The two handlers that pass an ownership change on to Wrike.
OwnerKinds == {"woso", "quote"}

\* The change-set key that names the owner: the project manager of a work
\* order, the primary sales rep of a quote.
OwnerKey(kind) ==
    IF kind = "woso" THEN "project_manager_id" ELSE "primary_sales_rep_id"

\* The change-sets of the updates: without the owner key, with it next to
\* updated_at, and with it followed by due_date.
OwnerChangeKeys(kind) ==
    {<<"updated_at">>, <<"updated_at", OwnerKey(kind)>>,
     <<OwnerKey(kind), "due_date">>}

HasKey(keys, k) == \E i \in 1..Len(keys) : keys[i] = k

\* The fields of the fetched sales order or quote that name users; "none"
\* is a field without an id. A quote has no project manager.
OwnerRecords(kind) ==
    {[createdBy |-> c, projectManager |-> m, primarySalesRep |-> r] :
        c \in {"none", "sv-x"},
        m \in IF kind = "woso" THEN {"none", "sv-1", "sv-x"} ELSE {"none"},
        r \in IF kind = "woso" THEN {"none", "sv-1"} ELSE {"none", "sv-1", "sv-x"}}

NoOwnerRecord == [createdBy |-> "none", projectManager |-> "none",
                  primarySalesRep |-> "none"]

\* A request body sent to Wrike as far as responsibles go: the keys it
\* carries among responsibles (the full set), removeResponsibles and
\* addResponsibles, and their values.
NoRequest == [sent |-> FALSE, method |-> "none", keys |-> {},
              responsibles |-> <<>>,
              removeResponsibles |-> <<>>, addResponsibles |-> <<>>]

IdleOwn == [pc |-> "idle", kind |-> "woso", keys |-> <<"updated_at">>,
            changed |-> FALSE, old |-> "sv-1", new |-> "sv-1",
            record |-> NoOwnerRecord,
            oldResponsibles |-> <<>>, newResponsibles |-> <<>>,
            found |-> FALSE, request |-> NoRequest, requests |-> 0,
            retryCount |-> 0, ok |-> FALSE, outcome |-> "none"]

\* oldResponsibles.map(mapShopVoxToWrikeUserId)
mapAll(users) == [i \in 1..Len(users) |-> mapShopVoxToWrikeUserId(users[i])]

Range(f) == {f[i] : i \in DOMAIN f}

\* ShopVox posts work_order:updated or quote:updated. Without the owner key
\* the change-set names no old and no new owner.
OwnReceive(kind, keys, old, new) ==
    /\ own.pc = "idle"
    /\ keys \in OwnerChangeKeys(kind)
    /\ ~HasKey(keys, OwnerKey(kind)) => (old = IdleOwn.old /\ new = IdleOwn.new)
    /\ own' = [IdleOwn EXCEPT
                 !.pc = "fetch", !.kind = kind, !.keys = keys,
                 !.changed = HasKey(keys, OwnerKey(kind)),
                 !.old = old, !.new = new]
    /\ UNCHANGED <<responsibles, ownerTask>>
    /\ UNCHANGED exceptOwner

\* getSalesOrder / getQuote; a failure emits the error finality event and
\* ends the handler.
OwnFetch(fetchOk, record) ==
    /\ own.pc = "fetch"
    /\ record \in OwnerRecords(own.kind)
    /\ own' = IF fetchOk
              THEN [own EXCEPT !.record = record,
                               !.pc = IF own.kind = "woso" THEN "dateGuard"
                                      ELSE "responsibles"]
              ELSE [own EXCEPT !.outcome = "error", !.pc = "done"]
    /\ UNCHANGED <<responsibles, ownerTask>>
    /\ UNCHANGED exceptOwner

\* The work-order handler's due-date loop detection; sameDate is whether
\* the task's Target Install Date equals the sales order's due date.
OwnDateGuard(searchOk, sameDate) ==
    /\ own.pc = "dateGuard"
    /\ LET checked == isOnlyDueDateChange(own.keys)
           matches == ownerTask.exists /\ sameDate
       IN own' = IF checked /\ loopCheck(searchOk, matches) = "skip"
                 THEN [own EXCEPT !.outcome = "skipped", !.pc = "done"]
                 ELSE [own EXCEPT !.pc = "userGuard"]
    /\ UNCHANGED <<responsibles, ownerTask>>
    /\ UNCHANGED exceptOwner

\* The work-order handler's user-field loop detection.
OwnUserGuard(searchOk) ==
    /\ own.pc = "userGuard"
    /\ LET changeKeys == own.keys
           shape == Len(changeKeys) = 2 /\ HasKey(changeKeys, "updated_at")
           userFieldKey == IF changeKeys[1] # "updated_at" THEN changeKeys[1]
                           ELSE changeKeys[Len(changeKeys)]
           checked == shape /\ userFieldKey \in userFieldMapping
           matches == /\ ownerTask.exists
                      /\ UserMatches(ownerTask.projectManager, own.new)
       IN own' = IF checked /\ loopCheck(searchOk, matches) = "skip"
                 THEN [own EXCEPT !.outcome = "skipped", !.pc = "done"]
                 ELSE [own EXCEPT !.pc = "responsibles"]
    /\ UNCHANGED <<responsibles, ownerTask>>
    /\ UNCHANGED exceptOwner

\* The handlers: changes.project_manager_id (work order) or
\* changes.primary_sales_rep_id (quote) fills the two one-element lists;
\* without the key both stay empty. createOrUpdateWosoTask /
\* createOrUpdateQuoteTask then searches the task; a failed search is
\* rethrown to the handler's catch block.
OwnSearch(searchOk) ==
    /\ own.pc = "responsibles"
    /\ own' = IF searchOk
              THEN [own EXCEPT
                      !.oldResponsibles = IF own.changed THEN <<own.old>> ELSE <<>>,
                      !.newResponsibles = IF own.changed THEN <<own.new>> ELSE <<>>,
                      !.found = ownerTask.exists,
                      !.pc = "write"]
              ELSE [own EXCEPT
                      !.oldResponsibles = IF own.changed THEN <<own.old>> ELSE <<>>,
                      !.newResponsibles = IF own.changed THEN <<own.new>> ELSE <<>>,
                      !.outcome = "error", !.pc = "done"]
    /\ UNCHANGED <<responsibles, ownerTask>>
    /\ UNCHANGED exceptOwner

\* updateWosoTask / updateQuoteTask: the request body's responsibles keys.
updateTaskRequest(oldResponsibles, newResponsibles) ==
    [sent |-> TRUE, method |-> "PUT",
     keys |-> {"removeResponsibles", "addResponsibles"},
     responsibles |-> <<>>,
     removeResponsibles |-> mapAll(oldResponsibles),
     addResponsibles |-> mapAll(newResponsibles)]

\* The ids of a list of optional user fields, in order, without the fields
\* that have none.
RECURSIVE presentIds(_)
presentIds(fields) ==
    IF fields = <<>> THEN <<>>
    ELSE IF fields[1] = "none" THEN presentIds(Tail(fields))
    ELSE <<fields[1]>> \o presentIds(Tail(fields))

\* createWosoTask / createQuoteTask: the full set under responsibles, taken
\* from the record's createdBy, projectManager (sales order only) and
\* primarySalesRep; no delta key.
createTaskRequest(kind, record) ==
    [sent |-> TRUE, method |-> "POST",
     keys |-> {"responsibles"},
     responsibles |->
         mapAll(presentIds(IF kind = "woso"
                           THEN <<record.createdBy, record.projectManager,
                                  record.primarySalesRep>>
                           ELSE <<record.createdBy, record.primarySalesRep>>)),
     removeResponsibles |-> <<>>, addResponsibles |-> <<>>]

\* Wrike applying addResponsibles and removeResponsibles of one request;
\* the order it applies them in is not fixed by the caller.
applyResponsibles(current, request, addFirst) ==
    IF addFirst
    THEN (current \cup Range(request.addResponsibles))
             \ Range(request.removeResponsibles)
    ELSE (current \ Range(request.removeResponsibles))
             \cup Range(request.addResponsibles)

\* The user custom field a request body carries: the contact field is pushed
\* only for a record that names the user.
userFieldOf(kind, record) ==
    LET user == IF kind = "woso" THEN record.projectManager
                ELSE record.primarySalesRep
    IN IF user = "none" THEN <<>> ELSE <<mapShopVoxToWrikeUserId(user)>>

\* The task's user custom field after Wrike has carried out a PUT: a body
\* without the contact field leaves the field as it was.
updatedUserField(current, kind, record) ==
    IF userFieldOf(kind, record) = <<>> THEN current
    ELSE userFieldOf(kind, record)

\* A task was found: one fetch of the PUT. own.requests counts the fetches,
\* own.ok tells whether Wrike carried one out; the handler succeeds only
\* when makeRequest returns an answer updateWosoTask / updateQuoteTask can
\* parse.
OwnUpdate(outcome, addFirst) ==
    /\ own.pc = "write"
    /\ own.found
    /\ outcome \in WriteOutcomes
    /\ LET request == updateTaskRequest(own.oldResponsibles, own.newResponsibles)
           applied == requestApplied(outcome)
           resent == requestResent(outcome, own.retryCount)
       IN /\ own' = [own EXCEPT
                       !.pc = IF resent THEN "write" ELSE "done",
                       !.request = request,
                       !.requests = @ + 1,
                       !.retryCount = IF resent THEN @ + 1 ELSE 0,
                       !.ok = @ \/ applied,
                       !.outcome = IF resent THEN @
                                   ELSE IF requestReturns(outcome) THEN "success"
                                   ELSE "error"]
          /\ responsibles' = IF applied
                             THEN applyResponsibles(responsibles, request, addFirst)
                             ELSE responsibles
          /\ ownerTask' = IF applied
                          THEN [ownerTask EXCEPT
                                  !.projectManager =
                                      updatedUserField(@, own.kind, own.record)]
                          ELSE ownerTask
    /\ UNCHANGED exceptOwner

\* No task was found: one fetch of the POST. A POST Wrike carries out
\* creates a task with the full set as its responsibles: the first task of
\* the entity, which later searches return as data[0] (ownerTask), or,
\* after an earlier POST whose answer was lost, a further one next to it.
OwnCreate(outcome) ==
    /\ own.pc = "write"
    /\ ~own.found
    /\ outcome \in WriteOutcomes
    /\ LET request == createTaskRequest(own.kind, own.record)
           applied == requestApplied(outcome)
           resent == requestResent(outcome, own.retryCount)
           first == applied /\ ~ownerTask.exists
       IN /\ own' = [own EXCEPT
                       !.pc = IF resent THEN "write" ELSE "done",
                       !.request = request,
                       !.requests = @ + 1,
                       !.retryCount = IF resent THEN @ + 1 ELSE 0,
                       !.ok = @ \/ applied,
                       !.outcome = IF resent THEN @
                                   ELSE IF requestReturns(outcome) THEN "success"
                                   ELSE "error"]
          /\ responsibles' = IF first THEN Range(request.responsibles)
                             ELSE responsibles
          /\ ownerTask' = IF first
                          THEN [exists |-> TRUE,
                                projectManager |-> userFieldOf(own.kind, own.record)]
                          ELSE ownerTask
    /\ UNCHANGED exceptOwner

\* The handler's promise has settled; its invocation record is dropped.
OwnReturn ==
    /\ own.pc = "done"
    /\ own' = IdleOwn
    /\ UNCHANGED <<responsibles, ownerTask>>
    /\ UNCHANGED exceptOwner

\* A Wrike user edits the task's responsibles and its user custom field
\* between updates.
ResponsiblesEdit(ids, projectManager) ==
    /\ own.pc = "idle"
    /\ ownerTask.exists
    /\ responsibles' = ids
    /\ ownerTask' = [ownerTask EXCEPT !.projectManager = projectManager]
    /\ <<responsibles, ownerTask>>' # <<responsibles, ownerTask>>
    /\ UNCHANGED own
    /\ UNCHANGED exceptOwner

\* The entity has no Wrike task yet.
InitOwner ==
    /\ responsibles = {}
    /\ ownerTask = [exists |-> FALSE, projectManager |-> <<>>]
    /\ own = IdleOwn

NextOwner ==
    \/ \E kind \in OwnerKinds, keys \in UNION {OwnerChangeKeys(k) : k \in OwnerKinds},
          old \in Owners, new \in Owners : OwnReceive(kind, keys, old, new)
    \/ \E fetchOk \in BOOLEAN, record \in UNION {OwnerRecords(k) : k \in OwnerKinds} :
          OwnFetch(fetchOk, record)
    \/ \E searchOk \in BOOLEAN, sameDate \in BOOLEAN : OwnDateGuard(searchOk, sameDate)
    \/ \E searchOk \in BOOLEAN : OwnUserGuard(searchOk)
    \/ \E searchOk \in BOOLEAN : OwnSearch(searchOk)
    \/ \E outcome \in WriteOutcomes, addFirst \in BOOLEAN : OwnUpdate(outcome, addFirst)
    \/ \E outcome \in WriteOutcomes : OwnCreate(outcome)
    \/ OwnReturn
    \/ \E ids \in SUBSET WrikeUserIds, projectManager \in WrikeUserValues :
          ResponsiblesEdit(ids, projectManager)


(***************************************************************************)
(* 7. STATE LOG (addLogToState)                                            *)
(***************************************************************************)

\* Handler invocations that can run at the same time. The webhook endpoint
\* emits one event per element of the request body, all under the request's
\* trace id, and each event starts its own handler invocation.
LogHandlers == {"h1", "h2"}

\* addLogToState calls per handler invocation.
MaxAppends == 2

IdleAppender == [pc |-> "idle", traceId |-> 1, existingLogs |-> <<>>,
                 message |-> 0]

\* The entry addLogToState builds: who wrote it and which of its messages.
newLog(h) == [by |-> h, message |-> appender[h].message + 1]

\* addLogToState up to the answer of state.get(traceId, "logs.entries"):
\* the stored array, or an empty one. When state.get rejects, the catch
\* block logs the failure and the call ends with nothing stored.
StateGet(h, t, getOk) ==
    /\ appender[h].pc = "idle"
    /\ appender[h].message < MaxAppends
    /\ t \in TraceIds
    /\ appender' = [appender EXCEPT ![h] =
                       IF getOk
                       THEN [@ EXCEPT !.pc = "read", !.traceId = t,
                                      !.existingLogs = logsEntries[t]]
                       ELSE [@ EXCEPT !.message = @ + 1]]
    /\ UNCHANGED <<logsEntries, logged>>
    /\ UNCHANGED exceptStateLog

\* The rest of addLogToState: push the new entry on the array it read and
\* state.set(traceId, "logs.entries", existingLogs). When state.set
\* rejects, the catch block logs the failure and nothing is stored.
StateSet(h, setOk) ==
    /\ appender[h].pc = "read"
    /\ logsEntries' = IF setOk
                      THEN [logsEntries EXCEPT ![appender[h].traceId] =
                              Append(appender[h].existingLogs, newLog(h))]
                      ELSE logsEntries
    /\ logged' = IF setOk
                 THEN logged \cup {[traceId |-> appender[h].traceId,
                                    entry |-> newLog(h)]}
                 ELSE logged
    /\ appender' = [appender EXCEPT ![h] =
                       [@ EXCEPT !.pc = "idle", !.existingLogs = <<>>,
                                 !.message = @ + 1]]
    /\ UNCHANGED exceptStateLog

InitStateLog ==
    /\ logsEntries = [t \in TraceIds |-> <<>>]
    /\ appender = [h \in LogHandlers |-> IdleAppender]
    /\ logged = {}

\* Handler invocations are separate asynchronous tasks: any interleaving of
\* their state.get and state.set calls, and of the notification handler
\* that runs under the trace id of a flow that failed.
NextStateLog ==
    \/ \E h \in LogHandlers, t \in TraceIds, getOk \in BOOLEAN : StateGet(h, t, getOk)
    \/ \E h \in LogHandlers, setOk \in BOOLEAN : StateSet(h, setOk)
    \/ \E t \in TraceIds : FlowFails(t, "finality:error:work-order-updated")
    \/ \E t \in TraceIds : FlowSucceeds(t, "finality:work-order-updated-success")
    \/ \E t \in TraceIds : NotifStart(t)
    \/ \E t \in TraceIds, ok \in BOOLEAN : NotifSend(t, ok)
    \/ \E t \in TraceIds, clearOk \in BOOLEAN : NotifClear(t, clearOk)
    \/ \E t \in TraceIds : NotifComplete(t)

(***************************************************************************)
(* 8. ERROR RECORDING                                                      *)
(***************************************************************************)

\* The errors a handler catches, in the case they are thrown with: the
\* retry layer's errors, a connection failure carrying the system error
\* code, a Mailgun-style "... API error (503)" and a capitalised timeout.
ThrownErrors ==
    ErrorSet \cup
    {[type |-> "Error", msg |-> <<"connect", "ECONNREFUSED">>],
     [type |-> "Error", msg |-> <<"read", "ECONNRESET">>],
     [type |-> "Error", msg |-> <<"API", "error", "503">>],
     [type |-> "Error", msg |-> <<"Request", "Timeout">>],
     [type |-> "Error", msg |-> <<"timeout">>],
     HttpError("422", "json"), HttpError("401", "json"), BodyUnusable,
     [type |-> "Error", msg |-> <<"Status", "400">>],
     [type |-> "Error", msg |-> <<"STATUS", "408">>],
     [type |-> "Error", msg |-> <<"status", "301">>],
     [type |-> "Error", msg |-> <<"Unauthorized">>],
     [type |-> "TypeError", msg |-> <<"fetch", "status", "404">>]}

\* categorizeError: case-sensitive includes on the message, first hit wins.
categorizeError(error) ==
    IF \E w \in {"timeout", "ETIMEDOUT", "AbortError"} : Includes(error.msg, w)
    THEN "timeout"
    ELSE IF \E w \in {"API", "fetch failed", "HTTP", "status"} :
               Includes(error.msg, w)
    THEN "api_error"
    ELSE IF \E w \in {"validation", "invalid", "required"} :
               Includes(error.msg, w)
    THEN "validation_error"
    ELSE "unknown"

NoErrRec == [pc |-> "idle", error |-> [type |-> "Error", msg |-> <<>>],
             isRetryable |-> FALSE, errorCategory |-> "none"]

\* A handler's remote call throws error; the retry layer has classified it
\* and the handler's catch block hands it to logStepError and
\* logFlowComplete, which categorise it.
LogStepError(t, error) ==
    /\ errRec[t].pc = "idle"
    /\ errRec' = [errRec EXCEPT ![t] =
                     [pc |-> "recorded", error |-> error,
                      isRetryable |-> isRetryableError(error),
                      errorCategory |-> categorizeError(error)]]
    /\ UNCHANGED exceptErrRec

InitErrRec == errRec = [t \in TraceIds |-> NoErrRec]

NextErrRec == \E t \in TraceIds, error \in ThrownErrors : LogStepError(t, error)

(***************************************************************************)
(* 9. SUBTASK NAMING                                                       *)
(***************************************************************************)

\* One parent task and the subtasks created under it; the titles they take.
ParentTask == "pt"
Subtasks == {"st-1", "st-2"}
Titles == {"A", "B"}

\* PUT requests followed per behaviour.
MaxPuts == 5

\* retryCount: makeRequest's argument in the running updateSubtask call;
\* puts: every PUT sent, with the title it carries, whether Wrike carried
\* it out and whether it was the first fetch of its updateSubtask call.
IdleSub == [pc |-> "idle", subtaskId |-> "st-1", parentTitle |-> "A",
            subtaskTitle |-> "A", retryCount |-> 0, puts |-> <<>>]

\* subtask:created is delivered (or delivered again) for a subtask.
SubReceive(subtaskId) ==
    /\ sub.pc \in {"idle", "done"}
    /\ sub' = [sub EXCEPT !.pc = "fetch", !.subtaskId = subtaskId]
    /\ UNCHANGED titles
    /\ UNCHANGED exceptSub

titleMatchesNever(subtaskTitle, parentTitle) == FALSE

\* subtask.title === parentTask.title
titleMatches(subtaskTitle, parentTitle) == subtaskTitle = parentTitle

\* Promise.all of the two getTaskById calls and the checks that follow: a
\* rejected call is caught, an empty result or an equal title returns.
SubFetch(outcome) ==
    /\ sub.pc = "fetch"
    /\ LET parentTitle == titles[ParentTask]
           subtaskTitle == titles[sub.subtaskId]
       IN IF outcome = "found"
          THEN sub' = [sub EXCEPT
                   !.pc = IF titleMatches(subtaskTitle, parentTitle)
                          THEN "done" ELSE "update",
                   !.parentTitle = parentTitle,
                   !.subtaskTitle = subtaskTitle]
          ELSE sub' = [sub EXCEPT !.pc = "done"]
    /\ UNCHANGED titles
    /\ UNCHANGED exceptSub

\* updateSubtask(subtaskId, parentTask.title, undefined, customFields): one
\* fetch of its PUT tasks/{subtaskId}. makeRequest sends the PUT again
\* after an abort or a network error; when the method returns or throws the
\* handler ends, a failure being caught and logged.
SubUpdate(outcome) ==
    /\ sub.pc = "update"
    /\ outcome \in WriteOutcomes
    /\ Len(sub.puts) < MaxPuts
    /\ LET resent == requestResent(outcome, sub.retryCount)
       IN sub' = [sub EXCEPT
                !.pc = IF resent THEN "update" ELSE "done",
                !.retryCount = IF resent THEN @ + 1 ELSE 0,
                !.puts = Append(@, [subtaskId |-> sub.subtaskId,
                                    title |-> sub.parentTitle,
                                    applied |-> requestApplied(outcome),
                                    first |-> sub.retryCount = 0])]
    /\ titles' = IF requestApplied(outcome)
                 THEN [titles EXCEPT ![sub.subtaskId] = sub.parentTitle]
                 ELSE titles
    /\ UNCHANGED exceptSub

\* A user renames the parent task in Wrike.
ParentRename(title) ==
    /\ titles[ParentTask] # title
    /\ titles' = [titles EXCEPT ![ParentTask] = title]
    /\ UNCHANGED sub
    /\ UNCHANGED exceptSub

\* A new subtask carries the title its creator gave it.
InitSub ==
    /\ titles = [id \in {ParentTask} \cup Subtasks |->
                    IF id = ParentTask THEN "A" ELSE "B"]
    /\ sub = IdleSub

NextSub ==
    \/ \E subtaskId \in Subtasks : SubReceive(subtaskId)
    \/ \E outcome \in {"found", "notFound", "throws"} : SubFetch(outcome)
    \/ \E outcome \in WriteOutcomes : SubUpdate(outcome)
    \/ \E title \in Titles : ParentRename(title)

(***************************************************************************)
(* SPECIFICATIONS                                                          *)
(***************************************************************************)

\* Runs are independent asynchronous tasks: any interleaving.
NextReconcile ==
    \/ \E r \in RunIds, e \in Entities : StartReconcile(r, e)
    \/ ReconStep

InitAll ==
    /\ InitRecon /\ InitTrace /\ InitAuth /\ InitCall /\ InitGuard /\ InitOwner
    /\ InitRecorder /\ InitStateLog /\ InitErrRec /\ InitSub

InitReconcile == InitAll

SpecReconcile == InitReconcile /\ [][NextReconcile]_vars

\* Runs called one after the other: a run starts only when no other is active.
NextReconcileSeq ==
    \/ \E r \in RunIds, e \in Entities : NoRunActive /\ StartReconcile(r, e)
    \/ ReconStep

SpecReconcileSeq == InitReconcile /\ [][NextReconcileSeq]_vars

TasksIn(tasks, e) == {i \in 1..Len(tasks) :
                        tasks[i].db = DbOf(e) /\ tasks[i].shopvoxId = e}

TasksFor(e) == TasksIn(wrikeTasks, e)

\* C1: whatever the interleaving of reconcile runs for one source id, at most
\* one target record carrying that source id is ever created.
AtMostOneTargetPerSource ==
    \A e \in Entities : Cardinality(TasksFor(e)) <= 1

\* C2: a reconcile call that completes in a sequence of calls leaves exactly
\* one target record for its source id, holding the record the call fetched;
\* when a target record existed before the call, the call updates it and
\* creates nothing.
ReconcileTwiceIdempotent ==
    [][\A r \in RunIds :
         (runs[r].pc # "done" /\ runs'[r].pc = "done") =>
            LET e == runs'[r].entity IN
            /\ Cardinality(TasksIn(wrikeTasks', e)) = 1
            /\ \A i \in TasksIn(wrikeTasks', e) : wrikeTasks'[i].data = runs'[r].rec
            /\ (TasksIn(wrikeTasks, e) # {} =>
                  /\ ~runs'[r].wasCreated
                  /\ Len(wrikeTasks') = Len(wrikeTasks))]_vars


InitQuoteFlow == InitAll

SpecQuoteFlow == InitQuoteFlow /\ [][NextQuoteFlow]_vars

\* C3: once the flow row of a trace id is success or failed, no later
\* logFlowComplete call for that trace id changes the recorded status.
TerminalStatusNeverChanges ==
    [][\A t \in TraceIds :
         flowRow[t] \in {"success", "failed"} => flowRow'[t] = flowRow[t]]_vars

\* C4: every event whose processing reached a terminal outcome has produced
\* exactly one finality signal for its trace id.
ExactlyOneFinalityPerOutcome ==
    \A t \in TraceIds : proc[t].pc = "end" => Len(finality[t]) = 1


SpecWebhook == InitAll /\ [][NextWebhook]_vars

\* The request is Wrike's handshake challenge: its body is the object
\* with requestType "WebHook secret verification" and it has the header.
IsHandshake(req) ==
    bodyRequestType(req) = "WebHook secret verification"
    /\ req.header # NoHeader

\* C5: on every Wrike webhook endpoint, for a request that is not a
\* handshake and whose signature is missing or does not verify, no remote
\* fetch is made and no internal event is emitted. Stated for requests
\* whose body reaches the handler parsed, as the handlers read it.
UnverifiedRequestNotProcessed ==
    \A q \in ReqIds :
        (/\ webhook[q].pc # "idle"
         /\ webhook[q].req.delivery = "parsed"
         /\ ~IsHandshake(webhook[q].req)
         /\ ~SignatureVerifies(webhook[q].req))
        => webhook[q].fetches = 0 /\ webhook[q].emitted = 0


SpecRetry == InitAll /\ [][NextRetry]_vars

SpecWrikeCall == InitAll /\ [][NextWrikeCall]_vars

\* The error carries HTTP status 503.
Is503(error) == Includes(error.msg, "503")

\* The error carries HTTP status 404.
Is404(error) == Includes(error.msg, "404")

\* min(base * 2^i, cap)
NominalDelay(policy, i) == Min(policy.baseDelayMs * Pow2(i), policy.maxDelayMs)

\* C6: with policy (3, 1000 ms, 10000 ms), a call whose operation threw a 503
\* on every attempt ends after exactly 4 attempts with exactly 3 delays, the
\* i-th within [0.75, 1.25] times min(1000 * 2^i, 10000).
RetryBounds503 ==
    (/\ retry.pc = "thrown"
     /\ retry.policy = DefaultPolicy
     /\ \A i \in 1..Len(retry.errors) : Is503(retry.errors[i]))
    => /\ retry.totalAttempts = 4
       /\ Len(retry.errors) = 4
       /\ Len(retry.delays) = 3
       /\ \A i \in 1..Len(retry.delays) :
            /\ 4 * retry.delays[i] >= 3 * NominalDelay(DefaultPolicy, i - 1)
            /\ 4 * retry.delays[i] <= 5 * NominalDelay(DefaultPolicy, i - 1)

\* C6 witness: the default policy ran out of attempts on 503 errors.
RetryBounds503Witness ==
    /\ retry.pc = "thrown"
    /\ retry.policy = DefaultPolicy
    /\ Len(retry.errors) = 4
    /\ \A i \in 1..Len(retry.errors) : Is503(retry.errors[i])
    /\ \E i \in 1..Len(retry.delays) :
          retry.delays[i] # NominalDelay(DefaultPolicy, i - 1)

\* C7: when the operation throws a 404, withRetry makes that one attempt
\* only: it rethrows at once, with no delay and no retry.
NoRetryOn404 ==
    (retry.errors # <<>> /\ Is404(retry.errors[1]))
    => /\ retry.pc = "thrown"
       /\ retry.totalAttempts = 1
       /\ Len(retry.errors) = 1
       /\ retry.delays = <<>>

\* A thrown error of the abort / network type: the abort of the request
\* timer, a failed fetch, a socket timeout, a connection reset or a failed
\* DNS lookup.
AbortOrNetworkError(error) ==
    error \in {AbortError,
               [type |-> "TypeError", msg |-> <<"fetch failed">>],
               [type |-> "Error", msg |-> <<"socket", "timeout">>],
               [type |-> "Error", msg |-> <<"read", "ECONNRESET">>],
               [type |-> "Error", msg |-> <<"getaddrinfo", "ENOTFOUND">>]}

\* The failure is an HTTP 5xx or 429 response or a transient network failure.
TransientFailure(last) ==
    \/ last.kind = "response" /\ (last.status >= 500 \/ last.status = 429)
    \/ last.kind = "throws" /\ AbortOrNetworkError(last.error)

\* C8: a Wrike call that failed with HTTP 5xx / 429 or a transient network
\* failure surfaces to the flow only after its retries are exhausted.
TransientFailureSurfacesAfterRetries ==
    (wrikeCall.pc = "thrown" /\ TransientFailure(wrikeCall.last))
    => wrikeCall.fetches = maxRetries + 1


SpecDateGuard == InitAll /\ [][NextDateGuard]_vars

SpecChangeGuard == InitAll /\ [][NextChangeGuard]_vars

\* C9: once the handler has read a source record whose date is "2024-05-01",
\* an incoming value that normalises to "2024-05-01" ends in one
\* skip / loop_prevention signal and no write-back call, and one that
\* normalises to "2024-05-02" ends with exactly one write-back call, carrying
\* the incoming value.
DateLoopGuardSkipsOrWrites ==
    (tid.pc = "done" /\ tid.seen = DateOnly(1, FALSE)) =>
       /\ normalizeDateForComparison(tid.dueDate) = <<1>> =>
             /\ tid.writes = <<>>
             /\ Len(tid.finality) = 1
             /\ tid.finality[1].skipped
             /\ tid.finality[1].reason = "loop_prevention"
       /\ normalizeDateForComparison(tid.dueDate) = <<2>> =>
             /\ tid.calls = <<tid.dueDate>>
             /\ tid.writes # <<>>
             /\ \A i \in 1..Len(tid.writes) : tid.writes[i] = tid.dueDate
             /\ ~tid.finality[1].skipped

\* C9 witness: a timestamp that falls on 2024-05-02 in UTC was written back
\* although its text starts with the source's day.
DateLoopGuardWriteWitness ==
    /\ tid.pc = "done"
    /\ tid.seen = DateOnly(1, FALSE)
    /\ tid.dueDate = Timestamp(1, 23, -5)
    /\ tid.writes = <<tid.dueDate>>

\* The fields the loop guards watch.
TrackedFields == {"due_date", "estimator_id", "primary_sales_rep_id", "project_manager_id"}

TrackedTouched(changeKeys) ==
    Cardinality({i \in 1..Len(changeKeys) : changeKeys[i] \in TrackedFields})

\* C10: a work-order update whose change-set touches more than one tracked
\* field is never skipped by a loop guard: once the sales order has been read
\* the handler ends having issued the Wrike write.
MultiFieldChangeNeverSkipped ==
    (/\ wou.pc = "done"
     /\ TrackedTouched(wou.changes.keys) > 1
     /\ wou.finality # <<>>
     /\ wou.finality[1].topic # "finality:error:work-order-updated" \/ wou.writes > 0)
    => /\ wou.writes >= 1
       /\ ~wou.finality[1].skipped


\* The two handlers share nothing but the two remote records, which the edit
\* actions vary freely, so each is explored with the other one idle.
NextLoopGuards ==
    \/ wou = IdleWou /\ NextDateGuard
    \/ tid = IdleTid /\ NextChangeGuard

SpecLoopGuards == InitAll /\ [][NextLoopGuards]_vars

\* C11: when the lookup a loop guard needs fails, the handler goes on to
\* issue its write and does not end skipped; in both directions the guard's
\* failure leaves the outcome to the write itself.
GuardFailureProceedsWithWrite ==
    /\ (tid.pc = "done" /\ tid.seen = Unfetched)
          => /\ tid.calls = <<tid.dueDate>>
             /\ Len(tid.writes) >= 1
             /\ Len(tid.finality) = 1
             /\ ~tid.finality[1].skipped
    /\ (wou.pc = "done" /\ wou.lookupFailed)
          => /\ wou.calls = 1
             /\ wou.found => wou.writes >= 1
             /\ wou.result = "success" => wou.writes >= 1
             /\ Len(wou.finality) = 1
             /\ ~wou.finality[1].skipped

\* C11 witness: the Wrike search of the work-order handler's guard failed
\* and the handler still wrote the task, sending the request twice because
\* the first answer was lost, and reported success.
GuardFailureProceedsWitness ==
    /\ wou.pc = "done"
    /\ wou.lookupFailed
    /\ wou.writes = 2
    /\ wou.finality[1].topic = "finality:work-order-updated-success"
    /\ wosoTask.exists


\* C12: a reconcile run whose search of the target returns more than one
\* candidate for the source id ends in error there: it goes on to neither
\* an update nor a create.
MultipleCandidatesSurfaceError ==
    [][\A r \in RunIds :
         (/\ runs[r].pc = "search"
          /\ runs'[r].pc # "search"
          /\ Len(findTaskBySourceId(wrikeTasks, runs[r].entity)) > 1)
         => runs'[r].pc = "failed"]_vars


\* C13: when updates of one source entity are processed concurrently, a write
\* that completes later never carries an older source record than the one the
\* target record already holds: the target's content never goes backwards.
LastWriteIsFreshest ==
    [][\A i \in 1..Len(wrikeTasks) :
         wrikeTasks'[i].data >= wrikeTasks[i].data]_vars


\* Every handler that writes target records: the reconciling handlers and
\* quote-created.
NextTargetWrites ==
    \/ NextReconcile
    \/ \E r \in RunIds : StartQuoteCreated(r)

SpecTargetWrites == InitAll /\ [][NextTargetWrites]_vars

\* C14: a handler run creates a target record only after the same run has
\* searched the target system for the source id and found no match.
CreateOnlyAfterSearch ==
    [][\A r \in RunIds :
         (runs[r].pc = "create" /\ runs'[r] # runs[r]
                                /\ Len(wrikeTasks') = Len(wrikeTasks) + 1)
         => runs[r].searched]_vars


\* The Wrike-to-ShopVox direction with the Wrike task edited meanwhile.
NextWriteBack ==
    \/ wou = IdleWou /\ NextDateGuard
    \/ \E targetInstallDate \in DateStrings, projectManager \in WrikeUserValues :
          WosoTaskEdit(targetInstallDate, projectManager)

SpecWriteBack == InitAll /\ [][NextWriteBack]_vars

\* C15: the date written back to ShopVox is the one held by the Wrike task
\* fetched while the notification was processed, not the value carried in
\* the notification.
WrittenContentIsFetched ==
    tid.writes # <<>> => tid.writes[1] = tid.fetched


\* Two raw bodies that differ in exactly one byte.
OneByteApart(r1, r2) ==
    /\ r1.body = r2.body
    /\ r1.fmt # r2.fmt
    /\ {r1.fmt, r2.fmt} = {"pretty", "pretty-tab"}

\* C16: on the verifying endpoint an event request signed with
\* HMAC-SHA256(secret, B) is accepted when its raw body is B and answered 401
\* when its raw body differs from B in one byte. Stated for requests whose
\* body reaches the handler parsed, as the handlers read it.
SignatureRoundTrip ==
    \A q \in ReqIds :
       (/\ webhook[q].endpoint = "wosos"
        /\ webhook[q].req.delivery = "parsed"
        /\ webhook[q].pc \in {"events", "done"}
        /\ ~IsHandshake(webhook[q].req))
       => \A B \in RawBodies :
             webhook[q].req.header = hmacSha256(WrikeSecret, B) =>
                /\ (webhook[q].req.raw = B => webhook[q].status # 401)
                /\ (OneByteApart(webhook[q].req.raw, B) => webhook[q].status = 401)


\* C17: a handshake challenge is answered with status 200 and an
\* X-Hook-Secret header equal to HMAC-SHA256(shared secret, nonce), and no
\* event of the request is processed.
HandshakeAnswered ==
    \A q \in ReqIds :
       (webhook[q].pc = "done" /\ IsHandshake(webhook[q].req)) =>
          /\ webhook[q].status = 200
          /\ webhook[q].respHeader =
                [kind |-> "hmac", key |-> WrikeSecret,
                 value |-> webhook[q].req.header]
          /\ webhook[q].fetches = 0
          /\ webhook[q].emitted = 0

\* C17 witness: the verifying endpoint has answered a challenge whose
\* header carried a nonce.
HandshakeAnsweredWitness ==
    \E q \in ReqIds :
       /\ webhook[q].pc = "done"
       /\ webhook[q].endpoint = "wosos"
       /\ parse(webhook[q].req.raw) = HandshakeBody
       /\ webhook[q].req.header = NonceHeader
       /\ webhook[q].status = 200
       /\ webhook[q].respHeader.kind = "hmac"


\* C18: two runs of the quote-created handler whose remote calls had the
\* same results end with the same outcome and the same emitted events,
\* whether or not their logging queries failed, and neither makes more remote
\* calls than the handler has.
LoggingFailureIsInvisible ==
    \A t1, t2 \in TraceIds :
       (/\ proc[t1].pc = "end" /\ proc[t2].pc = "end"
        /\ proc[t1].calls = proc[t2].calls)
       => /\ proc[t1].outcome = proc[t2].outcome
          /\ finality[t1] = finality[t2]
          /\ Len(proc[t1].calls) <= 2

\* C18 witness: one run whose logging failed and one whose logging worked
\* made the same remote calls and both ended in success.
LoggingFailureWitness ==
    \E t1, t2 \in TraceIds :
       /\ proc[t1].pc = "end" /\ proc[t2].pc = "end"
       /\ rc[t1].queryFailed /\ ~rc[t2].queryFailed
       /\ \A q \in queries : q.t \notin {t1, t2}
       /\ proc[t1].calls = <<TRUE, TRUE>> /\ proc[t2].calls = <<TRUE, TRUE>>
       /\ proc[t1].outcome = "success" /\ proc[t2].outcome = "success"
       /\ flowRow[t1] # flowRow[t2]


\* C19: whenever withRetry rethrows, the value it rethrows carries retry
\* metadata: the number of attempts made, one delay per retry performed, one
\* message per failed attempt and the verdict on the last error.
PropagatedErrorCarriesMetadata ==
    retry.pc = "thrown" =>
       /\ retry.retryMetadata.attached
       /\ retry.retryMetadata.totalAttempts = retry.attempt + 1
       /\ Len(retry.retryMetadata.delays) = retry.attempt
       /\ Len(retry.retryMetadata.errors) = retry.attempt + 1
       /\ retry.retryMetadata.isRetryable
             = isRetryableError(retry.errors[Len(retry.errors)])


\* The HTTP status codes that appear in an error message.
EmbeddedStatuses(msg) ==
    {CodeValue(msg[i]) : i \in {j \in 1..Len(msg) : msg[j] \in StatusCodes}}

\* A network-level failure: a fetch TypeError or a connection / DNS /
\* reset / timeout message.
NetworkFailure(error) ==
    \/ error.type = "TypeError" /\ Includes(error.msg, "fetch")
    \/ \E w \in {"fetch failed", "network error", "timeout", "econnrefused",
                 "enotfound", "econnreset"} :
          Includes(lowerMessage(error.msg), w)

\* The verdict the stated priority order gives.
PriorityVerdict(error) ==
    IF NetworkFailure(error) THEN TRUE
    ELSE IF \E c \in EmbeddedStatuses(error.msg) : c >= 500 \/ c = 429 THEN TRUE
    ELSE IF \E c \in EmbeddedStatuses(error.msg) : c >= 400 /\ c < 500 THEN FALSE
    ELSE IF \E w \in {"unauthorized", "forbidden"} :
               Includes(lowerMessage(error.msg), w) THEN FALSE
    ELSE TRUE

\* C20: the verdict the classifier gives on a thrown error is the one of the
\* priority order network failure, status >= 500 or 429, other 4xx status,
\* authentication / authorisation / not-found failure, anything else.
ClassifierFollowsPriorityOrder ==
    retry.errors # <<>> =>
       retry.isRetryable = PriorityVerdict(retry.errors[Len(retry.errors)])

\* ---- responsibles delta ----

SpecOwner == InitAll /\ [][NextOwner]_vars

\* C21: when an update whose change-set shows the owner going from old to
\* new has been applied, the request carried the delta keys and not the
\* full set, the new owner's Wrike user is among the task's responsibles
\* and the old owner's is not.
OwnerDeltaReplacesOwner ==
    (/\ own.pc = "done" /\ own.request.method = "PUT" /\ own.ok
     /\ own.changed /\ own.old # own.new)
    => /\ "responsibles" \notin own.request.keys
       /\ own.request.removeResponsibles = <<mapShopVoxToWrikeUserId(own.old)>>
       /\ own.request.addResponsibles = <<mapShopVoxToWrikeUserId(own.new)>>
       /\ mapShopVoxToWrikeUserId(own.new) \in responsibles
       /\ mapShopVoxToWrikeUserId(own.old) \notin responsibles

\* Two date values that normalise to the same, non-empty date-only string.
SameCalendarDate(a, b) ==
    /\ normalizeDateForComparison(a) = normalizeDateForComparison(b)
    /\ normalizeDateForComparison(a) # <<>>

\* C22: in both directions, a date guard whose lookup succeeded and found a
\* recorded value of the same calendar date as the candidate, whatever the
\* time of day or zone either is written with, skips the write.
SameDateIsSkippedBothWays ==
    [][ /\ (/\ tid.pc = "guard"
            /\ tid'.pc # "guard"
            /\ tid'.seen # Unfetched
            /\ SameCalendarDate(tid.dueDate, salesOrder.dueDate))
           => (tid'.pc = "done" /\ tid'.writes = <<>>
               /\ tid'.finality[Len(tid'.finality)].skipped)
        /\ (/\ wou.pc = "dateGuard"
            /\ wou'.pc # "dateGuard"
            /\ isOnlyDueDateChange(wou.changes.keys)
            /\ ~wou'.lookupFailed
            /\ wosoTask.exists
            /\ SameCalendarDate(wou.salesOrder.dueDate, wosoTask.targetInstallDate))
           => (wou'.pc = "done" /\ wou'.writes = 0
               /\ wou'.finality[Len(wou'.finality)].skipped)
      ]_vars

\* A step ends its handler without a write: the guard found a match.
TidSkips == tid.pc = "guard" /\ tid'.pc = "done"

WouSkips == wou.pc \in {"dateGuard", "userGuard"} /\ wou'.pc = "done"

SkippedStepOutcome == [status |-> "skipped", skipReason |-> "loop_prevention"]

\* C23: a guard that skips the write ends the flow as a success: exactly one
\* finality event, on the success topic, marked skipped with reason
\* loop_prevention, and the step outcome recorded as skipped with skip
\* reason loop_prevention.
SkipEndsAsRecordedSuccess ==
    [][ /\ TidSkips =>
            /\ tid'.finality =
                   <<[topic |-> "finality:target-install-date-updated-success",
                      skipped |-> TRUE, reason |-> "loop_prevention"]>>
            /\ tid'.recorder.steps = <<SkippedStepOutcome>>
        /\ WouSkips =>
            /\ wou'.finality = <<SkipFinality>>
            /\ wou'.recorder.steps = <<SkippedStepOutcome>>
      ]_vars

\* The end-to-end scenario: a work-order update whose only changed field is
\* the due date, the source now on day 2, the task found and holding day 1.
DueDateScenario ==
    /\ wou.changes.keys \in {<<"due_date">>, <<"updated_at", "due_date">>}
    /\ wou.salesOrder.dueDate = DateOnly(2, FALSE)
    /\ wou.found

\* The scenario's write: the reconcile call updates the task and succeeds.
DueDateScenarioWrite ==
    /\ DueDateScenario
    /\ wou.pc = "write"
    /\ wosoTask.targetInstallDate = DateOnly(1, FALSE)
    /\ wou'.result = "success"

\* The scenario's end: the finality event after the successful write.
DueDateScenarioEnd ==
    /\ DueDateScenario
    /\ wou.pc = "emit"
    /\ wou.result = "success"
    /\ wou'.pc = "done"

\* C24: in the scenario the task's date becomes the source's, the flow ends
\* with one success finality event, and the recorder holds a success flow
\* row with exactly 2 step executions and 2 API-call records.
DueDateScenarioRecorded ==
    [][ /\ DueDateScenarioWrite => wosoTask'.targetInstallDate = DateOnly(2, FALSE)
        /\ DueDateScenarioEnd =>
              /\ wou'.finality = <<[topic |-> "finality:work-order-updated-success",
                                    skipped |-> FALSE, reason |-> "none"]>>
              /\ wou'.recorder.flow = "success"
              /\ Len(wou'.recorder.steps) = 2
              /\ Len(wou'.recorder.apiCalls) = 2
      ]_vars

\* ---- a Wrike -> ShopVox trace with its remote calls in flight ----

\* The target-install-date handler awaiting its two ShopVox calls: the
\* guard's getSalesOrder, then updateSalesOrder. Each handler step is taken
\* with the result its awaited call settled with.
TraceReceive ==
    /\ svCall.pc = "idle"
    /\ \E dueDate \in DateStrings : TidReceive(dueDate)

TraceCall ==
    \/ tid.pc = "guard" /\ svCall.pc = "idle" /\ SvCallStart("getSalesOrder")
    \/ /\ tid.pc = "update"
       /\ svCall.operation = "getSalesOrder"
       /\ svCall.pc \in {"returned", "thrown"}
       /\ SvCallStart("updateSalesOrder")

TraceGuard ==
    /\ svCall.operation = "getSalesOrder"
    /\ svCall.pc \in {"returned", "thrown"}
    /\ TidGuard(svCall.pc = "returned")

TraceUpdate ==
    /\ svCall.operation = "updateSalesOrder"
    /\ svCall.pc \in {"returned", "sleeping", "thrown"}
    /\ Len(tid.writes) = svCall.attempt
    /\ TidUpdate(CASE svCall.pc = "returned" -> "ok"
                    [] svCall.pc = "sleeping" -> "retry"
                    [] OTHER -> "throw")

\* withRetry's backoff timer of an attempt whose PUT was sent.
TraceWake ==
    /\ svCall.operation = "updateSalesOrder" => Len(tid.writes) = svCall.attempt + 1
    /\ SvWake

TraceReturn ==
    \/ TidReturn
    \/ tid.pc = "idle" /\ SvReset

NextTrace ==
    \/ TraceReceive
    \/ TraceCall
    \/ \E outcome \in SvOutcomes : SvFetchSettles(outcome)
    \/ TraceWake
    \/ TraceGuard
    \/ TraceUpdate
    \/ TidEmit
    \/ TraceReturn

\* The handler's own steps and timers are always eventually taken; the
\* remote system is under no obligation to answer.
SpecTraceLive ==
    /\ InitAll
    /\ [][NextTrace]_vars
    /\ WF_vars(TraceCall)
    /\ WF_vars(TraceWake)
    /\ WF_vars(TraceGuard)
    /\ WF_vars(TraceUpdate)
    /\ WF_vars(TidEmit)
    /\ WF_vars(TraceReturn)

\* C25: a trace that has started processing eventually reaches a terminal
\* outcome (a finality event), whether the remote system answers, fails or
\* stays silent.
TraceReachesTerminalOutcome ==
    (tid.pc \in {"guard", "update", "emit"}) ~> (tid.pc = "done")

\* ---- trace recorder, query by query ----

SpecRecorder == InitAll /\ [][NextQuoteFlow]_vars

\* The step rows the recorder writes: those stored and those it has sent.
WrittenStepRows ==
    stepRows \cup {stepRow(q) : q \in {p \in queries : p.kind = "stepInsert"}}

\* C26: every step row the recorder writes references, by its execution id
\* and by its trace id, the flow row of the trace it was written for.
\* (No API-call row is ever written: logApiCall has no caller.)
StepRowsReferenceTheirFlow ==
    /\ \A q \in queries :
          q.kind = "stepInsert" => (q.executionId = q.t /\ q.traceId = q.t)
    /\ \A r \in WrittenStepRows : r.traceId = r.executionId

\* ---- outbound attempts against the clock ----

SpecOutbound == InitAll /\ [][NextWrikeCall \/ NextSvCall]_vars

\* C27: no outbound attempt, to Wrike or to ShopVox, stays in flight beyond
\* the 30 s request timeout.
AttemptsBoundedByTimeout ==
    /\ wrikeCall.pc \in {"fetching", "reading"}
          => wrikeCall.elapsed * TickMs <= requestTimeout
    /\ svCall.pc = "fetching" => svCall.elapsed * TickMs <= requestTimeout

\* C28: once logFlowComplete has run for a trace and the trace is over, the
\* recorder's two caches hold no entry of that trace.
CachesEmptyAfterFlowComplete ==
    \A t \in TraceIds :
        (rc[t].completeRan /\ TraceQuiescent(t))
        => /\ t \notin executionIdCache
           /\ \A key \in stepExecutionCache : key[1] # t

\* C29: a step started right after logFlowStart, neither call awaited, is
\* still recorded: once the trace is over and no query failed, its row exists
\* and carries the status logStepComplete or logStepError gave it.
BackToBackStepIsRecorded ==
    \A t \in TraceIds :
        (TraceQuiescent(t) /\ ~rc[t].queryFailed)
        => \E r \in stepRows :
               /\ r.executionId = t
               /\ r.stepName = EventStep
               /\ r.status \in {"success", "failed"}

SpecStateLog == InitAll /\ [][NextStateLog]_vars

\* C30: an entry appended with addLogToState is never lost, also when several
\* handler invocations append under the same trace id at the same time: it
\* stays in the stored array of its trace.
LogEntriesNeverLost ==
    \A e \in logged :
        \E i \in DOMAIN logsEntries[e.traceId] :
            logsEntries[e.traceId][i] = e.entry

SpecErrRec == InitAll /\ [][NextErrRec]_vars

\* What the retry layer's patterns make of an error: a timeout, a transport
\* failure, an HTTP failure (a status code in the message), or none of them.
RetryLayerClass(error) ==
    LET lower == lowerMessage(error.msg)
    IN IF Includes(lower, "timeout") THEN "timeout"
       ELSE IF \/ error.type = "TypeError" /\ Includes(error.msg, "fetch")
               \/ \E w \in {"fetch failed", "network error", "econnrefused",
                            "enotfound", "econnreset"} : Includes(lower, w)
       THEN "transport"
       ELSE IF \/ statusMatch(error.msg) # 0
               \/ \E w \in {"500", "502", "503", "504", "429",
                            "401", "403", "404"} : Includes(lower, w)
       THEN "http"
       ELSE "other"

\* C31: the recording layer agrees with the retry layer: an error the retry
\* layer's patterns make a timeout is recorded as timeout, one they make a
\* transport or HTTP failure is recorded as api_error, never as unknown.
RecordedCategoryMatchesRetryLayer ==
    \A t \in TraceIds :
        errRec[t].pc = "recorded" =>
           /\ RetryLayerClass(errRec[t].error) = "timeout"
                 => errRec[t].errorCategory = "timeout"
           /\ RetryLayerClass(errRec[t].error) \in {"transport", "http"}
                 => errRec[t].errorCategory = "api_error"

\* ---- error finality and the notification handler ----

\* Number of traces explored with every flow handler, the notification
\* handler and the recorder's pool together; traces share no row and no
\* cache key.
MaxNotifyTraces == 1

NotifyTraceIds == 1..MaxNotifyTraces

\* One event per trace id: either quote-created or another flow.
NextNotify ==
    \/ \E t \in NotifyTraceIds : finality[t] = <<>> /\ EarlierTracesOver(t) /\ QcStart(t)
    \/ \E t \in NotifyTraceIds, ok \in BOOLEAN : QcFetch(t, ok)
    \/ \E t \in NotifyTraceIds, ok \in BOOLEAN : QcCreate(t, ok)
    \/ \E t \in NotifyTraceIds : QcCatch(t)
    \/ \E t \in NotifyTraceIds : EarlierTracesOver(t) /\ DestroyedStart(t)
    \/ \E t \in NotifyTraceIds, ok \in BOOLEAN : DestroyedVoid(t, ok)
    \/ \E t \in NotifyTraceIds, topic \in ErrorTopics :
          EarlierTracesOver(t) /\ FlowFails(t, topic)
    \/ \E t \in NotifyTraceIds, topic \in UnrecordedSuccessTopics :
          EarlierTracesOver(t) /\ FlowSucceeds(t, topic)
    \/ \E t \in NotifyTraceIds : NotifStart(t)
    \/ \E t \in NotifyTraceIds, ok \in BOOLEAN : NotifSend(t, ok)
    \/ \E t \in NotifyTraceIds, clearOk \in BOOLEAN : NotifClear(t, clearOk)
    \/ \E t \in NotifyTraceIds : NotifComplete(t)
    \/ \E q \in queries, queryOk \in BOOLEAN : QueryExecutes(q, queryOk)
    \/ \E q \in queries, answerOk \in BOOLEAN : QueryAnswered(q, answerOk)

\* The framework delivers every emitted event to the handlers subscribed to
\* its topic, and a started notification handler runs to its end.
SpecNotifyLive ==
    /\ InitAll
    /\ [][NextNotify]_vars
    /\ \A t \in NotifyTraceIds :
          /\ WF_vars(NotifStart(t))
          /\ WF_vars(\E ok \in BOOLEAN : NotifSend(t, ok))
          /\ WF_vars(\E clearOk \in BOOLEAN : NotifClear(t, clearOk))
          /\ WF_vars(NotifComplete(t))

\* C32: every error finality event a flow handler emits eventually leads to
\* a notification attempt under its trace.
ErrorFinalityLeadsToNotification ==
    \A t \in TraceIds :
        (\E i \in 1..Len(finality[t]) : finality[t][i] \in ErrorTopics)
            ~> (notif[t] \in {"end", "swallowed"})

\* C33: in the Wrike-to-ShopVox handler, when the incoming value and the
\* sales order's current due date both normalise to the empty string, the
\* guard does not skip: updateSalesOrder is called once, with the incoming
\* value, and no finality event is marked skipped.
EmptyDatesAreNotSkipped ==
    (/\ tid.pc = "done"
     /\ tid.seen # Unfetched
     /\ normalizeDateForComparison(tid.dueDate) = <<>>
     /\ normalizeDateForComparison(tid.seen) = <<>>)
    => /\ tid.calls = <<tid.dueDate>>
       /\ \A i \in 1..Len(tid.finality) : ~tid.finality[i].skipped

\* C33 witness: an unparsable incoming value met a sales order without a
\* due date and was written.
EmptyDatesWitness ==
    /\ tid.pc = "done"
    /\ tid.dueDate = InvalidDate
    /\ tid.seen = NullDate
    /\ tid.calls = <<InvalidDate>>
    /\ tid.writes = <<InvalidDate>>

\* The Wrike ids the mapping table holds for exactly this ShopVox user, in
\* both formats; a user without a table entry has none.
TableIdsOf(shopVoxUserId) ==
    IF shopVoxUserId = "sv-1" THEN {"wk-1", "v2-1"}
    ELSE IF shopVoxUserId = "sv-d" THEN {DEFAULT_WRIKE_USER_ID, "v2-default"}
    ELSE {}

\* C34: the assignee guard of the work-order-updated handler ends the
\* handler without a Wrike write only when the task's user field already
\* holds a Wrike id of exactly the ShopVox user the change-set names as
\* the new value.
AssigneeGuardSkipsOnlyOnSameUser ==
    [][(wou.pc = "userGuard" /\ wou'.pc = "done")
          => \E i \in 1..Len(wosoTask.projectManager) :
                 wosoTask.projectManager[i] \in TableIdsOf(wou.changes.pmNew)]_vars

\* ---- withRetry: bound and termination ----

\* Every invocation of the wrapped operation settles, and every backoff
\* timer fires.
\* The operation's failures here: one retryable HTTP failure, one that is
\* not, a network failure and a thrown string.
LiveErrors ==
    {HttpError("503", "json"), HttpError("404", "json"),
     [type |-> "TypeError", msg |-> <<"fetch failed">>],
     [type |-> "string", msg |-> <<"forbidden">>]}

RetryAttemptSettles ==
    \/ RetryAttemptOk
    \/ \E error \in LiveErrors, k \in 0..(JitterSteps - 1) :
          RetryAttemptThrows(error, k)

NextRetryLive ==
    \/ \E policy \in Policies : RetryCall(policy)
    \/ RetryAttemptSettles
    \/ RetryWake

SpecRetryLive ==
    /\ InitAll
    /\ [][NextRetryLive]_vars
    /\ WF_vars(RetryAttemptSettles)
    /\ WF_vars(RetryWake)

\* Invocations of the wrapped operation made so far: one per recorded
\* error, plus the one in flight or the one that resolved.
fnInvocations ==
    Len(retry.errors) + (IF retry.pc \in {"calling", "returned"} THEN 1 ELSE 0)

\* C35: withRetry invokes the operation at most maxAttempts + 1 times; a
\* call that returned did so on its first successful invocation, every
\* earlier one having thrown and been followed by one delay, with no
\* attempt or delay after it; and a call whose invocations all settle
\* returns or throws.
WithRetryBoundedAndTerminates ==
    /\ [](fnInvocations <= retry.policy.maxAttempts + 1)
    /\ [](retry.pc = "returned"
            => /\ retry.totalAttempts = Len(retry.errors) + 1
               /\ Len(retry.delays) = Len(retry.errors))
    /\ [][retry.pc = "returned" => retry' = retry]_vars
    /\ (retry.pc = "calling") ~> (retry.pc \in {"returned", "thrown"})

\* C35 witness: the default policy returned on its last allowed invocation,
\* after three failures and three delays.
WithRetryLastAttemptWitness ==
    /\ retry.pc = "returned"
    /\ retry.policy = DefaultPolicy
    /\ retry.totalAttempts = DefaultPolicy.maxAttempts + 1
    /\ Len(retry.delays) = 3

\* The notification handler between its start and its end.
NotifRunning == {"send", "clear", "complete"}

\* C36: the notification handler never throws and emits nothing: when the
\* e-mail cannot be rendered or sent it still ends normally, each of its
\* steps leaves it running or ended normally, no finality event is added,
\* the business handler is not run again, and a finished notification is
\* not started again.
NotificationFailureIsSwallowed ==
    [][\A t \in TraceIds :
          /\ (notif[t] \in NotifRunning /\ notif'[t] # notif[t])
                => /\ notif'[t] \in NotifRunning \cup {"end", "swallowed"}
                   /\ finality' = finality
                   /\ proc' = proc
          /\ notif[t] \in {"end", "swallowed"} => notif'[t] = notif[t]]_vars

\* C36 witness: a notification failed and was swallowed; the trace still
\* carries the one error finality event that started it.
NotificationFailureWitness ==
    \E t \in TraceIds :
        /\ notif[t] = "swallowed"
        /\ finality[t] = <<"finality:error:quote-created">>
        /\ flowRow[t] = "failed"

SpecSub == InitAll /\ [][NextSub]_vars

\* The PUT requests issued for one subtask, in order.
putsFor(subtaskId) == SelectSeq(sub.puts, LAMBDA r : r.subtaskId = subtaskId)

\* The latest PUT before the i-th that Wrike carried out, 0 when none.
lastApplied(reqs, i) ==
    LET earlier == {k \in 1..(i - 1) : reqs[k].applied}
    IN IF earlier = {} THEN 0
       ELSE CHOOSE k \in earlier : \A m \in earlier : m <= k

\* C37: processing subtask:created is idempotent: a processing that finds
\* the subtask's title equal to its parent's issues no update, so processing
\* the event again after an update Wrike carried out writes nothing: the
\* first PUT of an updateSubtask call never carries the title that the
\* latest PUT carried out for that subtask has already set. (Within one
\* call makeRequest may send the same PUT up to four times.)
SubtaskCreatedIsIdempotent ==
    \A subtaskId \in Subtasks :
        LET reqs == putsFor(subtaskId)
        IN \A i \in 1..Len(reqs) :
               (reqs[i].first /\ lastApplied(reqs, i) # 0)
               => reqs[i].title # reqs[lastApplied(reqs, i)].title

\* C37 witness: the event was processed again after an update that took
\* two fetches, the first carried out with its answer lost, and ended at
\* the title check without a further PUT.
SubtaskReprocessedWitness ==
    /\ sub.pc = "done"
    /\ sub.puts = <<[subtaskId |-> "st-1", title |-> "A", applied |-> TRUE,
                     first |-> TRUE],
                    [subtaskId |-> "st-1", title |-> "A", applied |-> TRUE,
                     first |-> FALSE]>>
    /\ sub.subtaskId = "st-1"
    /\ sub.parentTitle = "A"
    /\ sub.subtaskTitle = "A"

\* C38: one makeRequest call performs at most 4 fetch attempts; only a
\* thrown abort or network error is retried, after 1000, 2000 and 3000 ms;
\* a response is returned at once; and the call throws the last error as
\* soon as it is of another type or the three retries are used up.
MakeRequestRetriesAtMostThrice ==
    /\ wrikeCall.fetches <= 4
    /\ Len(wrikeCall.delays) <= 3
    /\ \A i \in 1..Len(wrikeCall.delays) : wrikeCall.delays[i] = 1000 * i
    /\ (wrikeCall.fetches > 0 /\ wrikeCall.pc \in {"sleeping", "fetching"})
          => /\ wrikeCall.last.kind = "throws"
             /\ AbortOrNetworkError(wrikeCall.last.error)
             /\ Len(wrikeCall.delays) = wrikeCall.fetches
    /\ wrikeCall.pc \in {"reading", "returned", "thrown"}
          => wrikeCall.fetches = Len(wrikeCall.delays) + 1
    /\ (wrikeCall.pc = "thrown" /\ wrikeCall.last.kind = "throws")
          => /\ wrikeCall.surfaced = wrikeCall.last.error
             /\ \/ ~AbortOrNetworkError(wrikeCall.last.error)
                \/ wrikeCall.fetches = 4

\* C38 witness: four attempts were aborted by the timer; the call threw
\* after the three delays.
MakeRequestExhaustedWitness ==
    /\ wrikeCall.pc = "thrown"
    /\ wrikeCall.fetches = 4
    /\ wrikeCall.delays = <<1000, 2000, 3000>>
    /\ wrikeCall.last.kind = "throws"
    /\ wrikeCall.last.error = AbortError
    /\ wrikeCall.surfaced = AbortError

====
